---------------------------- MODULE Spec2Model ----------------------------
(***************************************************************************)
(* Geographic decentralization metrics of geobeat (src/src/analysis):      *)
(* the composite scores PDI / JDI / IHI / GDI of gdi_standalone.py and     *)
(* gdi_v0_final.py, and the spatial statistics they are built on.          *)
(*                                                                         *)
(* Numbers.  The program computes in IEEE doubles.  The model computes in  *)
(* fixed point: a fraction in [0,1] is an integer number of millionths     *)
(* (Micro), a score in [0,100] an integer number of 1/10000 score points   *)
(* (100 * fraction in millionths), a value rounded by round(v, 1) an       *)
(* integer number of tenths.  The values a double can hold and an integer  *)
(* cannot (nan, inf, -inf) are kept by tagging every float: a float is a   *)
(* record [t |-> "fin" | "nan" | "inf" | "ninf", v |-> Int].               *)
(*                                                                         *)
(* A DataFrame is a sequence of rows [x, y, country, org]: x, y are the    *)
(* projected coordinates of the row's lat/lon in metres, country and org   *)
(* are category numbers, NULL where the cell is missing (NaN).             *)
(***************************************************************************)
EXTENDS Integers, Sequences, FiniteSets, TLC

VARIABLES
    df,             \* the DataFrame handed to the operation
    threshold_km,   \* distance band of Moran's I, in thousandths of a km
    ret,            \* what the last call returned or raised
    frames,         \* the GeoDataFrame objects alive, by reference (1, 2, ...)
    analyzer,       \* the SpatialAnalyzer: its references self.gdf, self.gdf_projected
    output_dirs     \* the run directories under data/analysis_outputs

vars == <<df, threshold_km, ret, frames, analyzer, output_dirs>>

\* what the operations on a plain DataFrame leave alone
objects == <<frames, analyzer, output_dirs>>

\* no SpatialAnalyzer was constructed
NoAnalyzer == [constructed |-> FALSE]

\* no GeoDataFrame, no analyzer and no run directory exists
NoObjects == frames = <<>> /\ analyzer = NoAnalyzer /\ output_dirs = {}

-----------------------------------------------------------------------------
(* Arithmetic helpers                                                      *)

\* one, as a fraction in millionths
Micro == 1000 * 1000

NULL == 0

Max(a, b) == IF a >= b THEN a ELSE b
Min(a, b) == IF a <= b THEN a ELSE b
Abs(a) == IF a < 0 THEN -a ELSE a

RECURSIVE Gcd(_, _)
Gcd(a, b) == IF b = 0 THEN Abs(a) ELSE Gcd(b, a % b)

\* a sequence held as a tuple of its elements
AsSeq(s) == s \o <<>>

RECURSIVE SumSeq(_)
SumSeq(s) == IF s = <<>> THEN 0 ELSE Head(s) + SumSeq(Tail(s))

\* the first k decimal digits of r / b as an integer, for 0 <= r < b
RECURSIVE DecimalDigits(_, _, _)
DecimalDigits(r, b, k) ==
    IF k = 0 THEN 0
    ELSE ((r * 10) \div b) * (10 ^ (k - 1)) + DecimalDigits((r * 10) % b, b, k - 1)

\* a / b in millionths, for b > 0; operands too long for the model's
\* integers lose their last digit first
RECURSIVE DivMicro(_, _)
DivMicro(a, b) ==
    IF b >= 200 * Micro THEN DivMicro(a \div 10, b \div 10)
    ELSE (a \div b) * Micro + DecimalDigits(a % b, b, 6)

\* floor(sqrt(n)) by bisection on [lo, hi]
RECURSIVE IsqrtIn(_, _, _)
IsqrtIn(n, lo, hi) ==
    IF lo >= hi THEN lo
    ELSE LET mid == (lo + hi + 1) \div 2
         IN  IF mid * mid <= n THEN IsqrtIn(n, mid, hi) ELSE IsqrtIn(n, lo, mid - 1)

Isqrt(n) == IsqrtIn(n, 0, Min(n, 46340))

\* Python's round(): q units of x make one unit of the result, ties go to
\* the even neighbour.
RoundHalfEven(x, q) ==
    LET f == x \div q
        r == x - f * q
    IN  IF 2 * r < q THEN f
        ELSE IF 2 * r > q THEN f + 1
        ELSE IF f % 2 = 0 THEN f ELSE f + 1

\* Tagged floats
Fin(v) == [t |-> "fin", v |-> v]
NaN == [t |-> "nan", v |-> 0]
PosInf == [t |-> "inf", v |-> 0]
NegInf == [t |-> "ninf", v |-> 0]
IsFin(f) == f.t = "fin"

\* round(score, 1): a score in 1/10000 points to tenths of a point; nan and
\* the infinities round to themselves.
Round1(f) == IF IsFin(f) THEN Fin(RoundHalfEven(f.v, 1000)) ELSE f

\* f >= c for a float f and a finite c of the same unit: every comparison
\* with nan is False, +inf is above and -inf below every finite number.
FloatGe(f, c) ==
    CASE f.t = "fin" -> f.v >= c
      [] f.t = "inf" -> TRUE
      [] OTHER -> FALSE

\* a / b for floats of one unit, the quotient in 1/unit: numpy divides by
\* 0.0 without raising (x / 0.0 is inf or -inf, 0.0 / 0.0 is nan)
FloatDiv(a, b, unit) ==
    CASE a.t = "nan" \/ b.t = "nan" -> NaN
      [] b.t = "fin" /\ b.v = 0 ->
           (CASE a.t = "inf" -> PosInf
              [] a.t = "ninf" -> NegInf
              [] a.v > 0 -> PosInf
              [] a.v < 0 -> NegInf
              [] OTHER -> NaN)
      [] b.t # "fin" -> IF a.t = "fin" THEN Fin(0) ELSE NaN
      [] a.t # "fin" -> IF (a.t = "inf") = (b.v > 0) THEN PosInf ELSE NegInf
      [] OTHER -> Fin((a.v * unit) \div b.v)

\* a - b for floats of one unit, b finite
FloatSub(a, b) == IF IsFin(a) THEN Fin(a.v - b.v) ELSE a

\* f < c for a float f and a finite c of the same unit
FloatLt(f, c) ==
    CASE f.t = "fin" -> f.v < c
      [] f.t = "ninf" -> TRUE
      [] OTHER -> FALSE

\* f > c for a float f and a finite c of the same unit
FloatGt(f, c) ==
    CASE f.t = "fin" -> f.v > c
      [] f.t = "inf" -> TRUE
      [] OTHER -> FALSE

\* f <= c for a float f and a finite c of the same unit
FloatLe(f, c) ==
    CASE f.t = "fin" -> f.v <= c
      [] f.t = "ninf" -> TRUE
      [] OTHER -> FALSE

\* np.log of the primes, in millionths
LnPrime(p) ==
    CASE p = 2 -> 693147
      [] p = 3 -> 1098612
      [] p = 5 -> 1609438
      [] p = 7 -> 1945910
      [] p = 11 -> 2397895
      [] p = 13 -> 2564949

\* np.log10 of the primes, in millionths
Log10Prime(p) ==
    CASE p = 2 -> 301030
      [] p = 3 -> 477121
      [] p = 5 -> 698970
      [] p = 7 -> 845098
      [] p = 11 -> 1041393
      [] p = 13 -> 1113943
      [] p = 17 -> 1230449
      [] p = 19 -> 1278754
      [] p = 23 -> 1361728
      [] p = 29 -> 1462398
      [] p = 31 -> 1491362
      [] p = 37 -> 1568202
      [] p = 41 -> 1612784
      [] p = 43 -> 1633468
      [] p = 47 -> 1672098

SmallestFactor(n) == CHOOSE p \in 2..n : n % p = 0 /\ \A q \in 2..(p - 1) : n % q # 0

\* np.log10(n) for an integer n >= 1, in millionths: the sum of the
\* logarithms of n's prime factors.
RECURSIVE Log10Pos(_)
Log10Pos(n) ==
    IF n = 1 THEN 0
    ELSE LET p == SmallestFactor(n) IN Log10Prime(p) + Log10Pos(n \div p)

\* np.log(n) for an integer n >= 1, in millionths
RECURSIVE Ln(_)
Ln(n) ==
    IF n = 1 THEN 0
    ELSE LET p == SmallestFactor(n) IN LnPrime(p) + Ln(n \div p)

\* a / b rounded to the nearest integer, for a >= 0 and b > 0
DivNearest(a, b) == (2 * a + b) \div (2 * b)

\* the terms h^k / k! of the exponential series from the k-th on, h and the
\* terms in 1/10000
RECURSIVE ExpTerms(_, _, _)
ExpTerms(h, term, k) ==
    IF term = 0 THEN 0
    ELSE term + ExpTerms(h, DivNearest(term * h, k * 10000), k + 1)

\* 1 + h, the exponential series cut after its second term
ExpLinear(h) == 10000 + DivNearest(h, 100)

\* np.exp(h) for h >= 0 in millionths, the result in 1/10000
Exp(h) == ExpTerms(DivNearest(h, 100), 10000, 1)

\* np.log10(n) as a float: log10(0) is -inf (numpy warns and goes on).
Log10(n) == IF n = 0 THEN NegInf ELSE Fin(Log10Pos(n))

-----------------------------------------------------------------------------
(* pandas: Series.value_counts() and len(df)                               *)

Column(d, col) == AsSeq([i \in 1..Len(d) |-> d[i][col]])

CountOf(s, k) == Cardinality({i \in 1..Len(s) : s[i] = k})

\* the index of the first row that holds k
FirstIndex(s, k) == CHOOSE i \in 1..Len(s) : s[i] = k /\ \A j \in 1..(i - 1) : s[j] # k

\* value_counts(): the count of every non-null value, most frequent first,
\* values of equal count in order of first appearance
value_counts(s) ==
    LET keys == {s[i] : i \in 1..Len(s)} \ {NULL}
        tally == {[key |-> k, count |-> CountOf(s, k), first |-> FirstIndex(s, k)] : k \in keys}
        Before(q, r) == q.count > r.count \/ (q.count = r.count /\ q.first < r.first)
    IN  AsSeq([i \in 1..Cardinality(keys) |->
            LET r == CHOOSE r \in tally : Cardinality({q \in tally : Before(q, r)}) = i - 1
            IN  [key |-> r.key, count |-> r.count]])

SumSquares(vc) == SumSeq([i \in 1..Len(vc) |-> vc[i].count * vc[i].count])

-----------------------------------------------------------------------------
(* Geometry: projected coordinates, cKDTree queries, the H3 grid           *)

\* one, in thousandths
Milli == Micro \div 1000

\* the coordinates beyond which a squared distance in metres no longer
\* fits the model's integers; distances beyond are taken in whole km
FarM == 30 * Milli

Coords(d) == AsSeq([i \in 1..Len(d) |-> <<d[i].x, d[i].y>>])

IsFar(p, q) == Abs(p[1] - q[1]) > FarM \/ Abs(p[2] - q[2]) > FarM

Dist2(p, q) == (p[1] - q[1]) * (p[1] - q[1]) + (p[2] - q[2]) * (p[2] - q[2])

Dist2Km(p, q) ==
    LET dx == Abs(p[1] - q[1]) \div 1000
        dy == Abs(p[2] - q[2]) \div 1000
    IN  dx * dx + dy * dy

\* Euclidean distance in metres
Dist(p, q) == IF IsFar(p, q) THEN 1000 * Isqrt(Dist2Km(p, q)) ELSE Isqrt(Dist2(p, q))

\* distance(p, q) <= r, r in metres
Within(p, q, r) ==
    /\ Abs(p[1] - q[1]) <= r
    /\ Abs(p[2] - q[2]) <= r
    /\ IF IsFar(p, q) \/ r > FarM
       THEN Dist2Km(p, q) <= (r \div 1000) * (r \div 1000)
       ELSE Dist2(p, q) <= r * r

\* cKDTree.query_pairs(r): the pairs i < j of points at most r apart
query_pairs(coords, r) ==
    {pr \in (1..Len(coords)) \X (1..Len(coords)) :
        pr[1] < pr[2] /\ Within(coords[pr[1]], coords[pr[2]], r)}

\* the distance to the farthest point when there are fewer than k
KthDistanceAmongPresent(coords, i, k) ==
    LET kk == Min(k, Len(coords))
        ds == AsSeq([j \in 1..Len(coords) |-> Dist(coords[i], coords[j])])
        v == CHOOSE c \in {ds[j] : j \in 1..Len(coords)} :
                /\ Cardinality({j \in 1..Len(coords) : ds[j] < c}) < kk
                /\ Cardinality({j \in 1..Len(coords) : ds[j] <= c}) >= kk
    IN  Fin(v)

\* cKDTree.query(coords, k)[0][i, k - 1]: the distance from point i to its
\* k-th nearest point, itself included; inf when there are fewer than k
KthDistance(coords, i, k) ==
    IF Len(coords) < k THEN PosInf
    ELSE LET ds == AsSeq([j \in 1..Len(coords) |-> Dist(coords[i], coords[j])])
             v == CHOOSE c \in {ds[j] : j \in 1..Len(coords)} :
                     /\ Cardinality({j \in 1..Len(coords) : ds[j] < c}) < k
                     /\ Cardinality({j \in 1..Len(coords) : ds[j] <= c}) >= k
         IN  Fin(v)

\* h3.latlng_to_cell(lat, lon, resolution): the grid is a grid of squares
\* whose edge halves with every resolution step
CellEdge(resolution) == 2 ^ (8 - resolution)

\* the cell index: the cell's column and row in the grid, in one number
latlng_to_cell(row, resolution) ==
    1 + (row.x \div CellEdge(resolution)) + Micro * (row.y \div CellEdge(resolution))

-----------------------------------------------------------------------------
(* float64 arithmetic of local_density.mean(). Whole numbers beyond 32     *)
(* bits are sequences of limbs base 2^15, most significant first; a double *)
(* is such a number of at most MantissaBits significant bits, in units of  *)
(* a power of two that is the same throughout one computation.             *)

MantissaBits == 52 + 1

LimbBits == 3 * 5

LimbBase == 2 ^ LimbBits

NumLimbs == 2 + 3

Front(x) == SubSeq(x, 1, Len(x) - 1)

\* x * k + c for k, c < LimbBase
RECURSIVE MulAdd(_, _, _)
MulAdd(x, k, c) ==
    IF x = <<>> THEN <<>>
    ELSE LET t == x[Len(x)] * k + c
         IN  MulAdd(Front(x), k, t \div LimbBase) \o <<t % LimbBase>>

\* x + y + c
RECURSIVE BigAdd(_, _, _)
BigAdd(x, y, c) ==
    IF x = <<>> THEN <<>>
    ELSE LET t == x[Len(x)] + y[Len(y)] + c
         IN  BigAdd(Front(x), Front(y), t \div LimbBase) \o <<t % LimbBase>>

\* quotient and remainder of x by d <= LimbBase, r the remainder so far
RECURSIVE BigDivide(_, _, _)
BigDivide(x, d, r) ==
    IF x = <<>> THEN [q |-> <<>>, r |-> r]
    ELSE LET t == r * LimbBase + Head(x)
             rest == BigDivide(Tail(x), d, t % d)
         IN  [q |-> <<t \div d>> \o rest.q, r |-> rest.r]

\* 2^k
PowerOfTwo(k) ==
    [i \in 1..NumLimbs |-> IF NumLimbs - i = k \div LimbBits THEN 2 ^ (k % LimbBits) ELSE 0]

\* the number of significant bits of v >= 1
BitLength(v) == CHOOSE k \in 1..31 : 2 ^ (k - 1) <= v /\ (k = 31 \/ v < 2 ^ k)

BigBitLength(x) ==
    LET lead == CHOOSE i \in 1..Len(x) : x[i] # 0 /\ \A j \in 1..(i - 1) : x[j] = 0
    IN  (Len(x) - lead) * LimbBits + BitLength(x[lead])

\* the sign of x - y
BigCompare(x, y) ==
    IF x = y THEN 0
    ELSE LET i == CHOOSE i \in 1..Len(x) : x[i] # y[i] /\ \A j \in 1..(i - 1) : x[j] = y[j]
         IN  IF x[i] > y[i] THEN 1 ELSE -1

\* the quotient res of a division by d = 2^shift and its remainder, with a
\* positive rest below them when inexact, rounded to nearest, ties to even,
\* and scaled back by d
RoundUp(res, d, inexact) ==
    res.r > d \div 2 \/ (res.r = d \div 2 /\ (inexact \/ res.q[Len(res.q)] % 2 = 1))

RoundShifted(res, d, inexact) ==
    MulAdd(MulAdd(res.q, 1, IF RoundUp(res, d, inexact) THEN 1 ELSE 0), d, 0)

RoundToBits(x, shift, inexact) ==
    IF shift <= 0 THEN x
    ELSE LET res == BigDivide(x, 2 ^ shift, 0)
         IN  RoundShifted(res, 2 ^ shift, inexact)

\* x, plus a positive rest below one unit when inexact, rounded to
\* MantissaBits significant bits
RoundToDouble(x, inexact) == RoundToBits(x, BigBitLength(x) - MantissaBits, inexact)

\* a quotient with its remainder, rounded
RoundQuotient(res) == RoundToDouble(res.q, res.r # 0)

\* 1.0 / d for a whole d >= 1, in units of 2^-(BitLength(d) + MantissaBits + 1)
DoubleReciprocal(d) ==
    LET res == BigDivide(PowerOfTwo(BitLength(d) + MantissaBits + 1), d, 0)
    IN  RoundQuotient(res)

\* np.add.reduce of k copies of a: the elements added one after another
RECURSIVE SumOfCopies(_, _)
SumOfCopies(a, k) ==
    IF k = 1 THEN a
    ELSE LET sum == BigAdd(SumOfCopies(a, k - 1), a, 0)
         IN  RoundToDouble(sum, FALSE)

\* the mean of n copies of a, in units an eighth of a's
MeanOfCopies(a, n) ==
    LET res == BigDivide(MulAdd(SumOfCopies(a, n), 8, 0), n, 0)
    IN  RoundQuotient(res)

SignOfDeviation(a, n) ==
    LET mean == MeanOfCopies(a, n)
    IN  BigCompare(MulAdd(a, 8, 0), mean)

\* the sign of a - mean for an array of n copies of a = 1.0 / d: the mean of
\* equal values is not always that value
MeanDeviationSign(d, n) ==
    LET a == DoubleReciprocal(d)
    IN  SignOfDeviation(a, n)

-----------------------------------------------------------------------------
(* gdi_standalone.py: _get_local_density, _calculate_morans_i              *)

\* distances[:, 5] of tree.query(coords, k=6)
KDistances(coords) == AsSeq([i \in 1..Len(coords) |-> KthDistance(coords, i, 6)])

\* density = 1.0 / (k_distance + 1), in thousandths; 1 / (inf + 1) is 0.0
Density(k_distance) ==
    AsSeq([i \in 1..Len(k_distance) |->
        IF IsFin(k_distance[i]) THEN Milli \div (k_distance[i].v + 1) ELSE 0])

_get_local_density(coords) == Density(KDistances(coords))

\* x = local_density - local_density.mean(). Densities that differ are
\* taken in thousandths and x scaled by n; the mean of densities that are
\* all equal to 1.0 / (k_distance + 1) is rounded as float64 rounds it, and
\* x is then the sign of the rest. I depends on the ratios of x only.
DeviationsOf(k_distance, local_density) ==
    IF /\ Len(k_distance) > 0 /\ IsFin(k_distance[1])
       /\ \A i \in 1..Len(k_distance) : k_distance[i] = k_distance[1]
    THEN LET sign == MeanDeviationSign(k_distance[1].v + 1, Len(k_distance))
         IN  AsSeq([i \in 1..Len(k_distance) |-> sign])
    ELSE LET total == SumSeq(local_density)
         IN  AsSeq([i \in 1..Len(k_distance) |-> Len(k_distance) * local_density[i] - total])

Deviations(coords) ==
    LET k_distance == KDistances(coords)
        local_density == Density(k_distance)
    IN  DeviationsOf(k_distance, local_density)

\* a weights matrix that keeps W[i, j] = 1 and drops W[j, i] = 1
BinaryWeightsOneWay(coords, threshold_m) ==
    LET pairs == query_pairs(coords, threshold_m)
    IN  AsSeq([i \in 1..Len(coords) |-> AsSeq([j \in 1..Len(coords) |->
            IF <<i, j>> \in pairs THEN 1 ELSE 0])])

\* W before row-standardization: W[i][j] = 1 for every pair within the band
BinaryWeights(coords, threshold_m) ==
    LET pairs == query_pairs(coords, threshold_m)
    IN  AsSeq([i \in 1..Len(coords) |-> AsSeq([j \in 1..Len(coords) |->
            IF <<i, j>> \in pairs \/ <<j, i>> \in pairs THEN 1 ELSE 0])])

\* row_sums = W.sum(axis=1); row_sums[row_sums == 0] = 1
RowSums(W) == AsSeq([i \in 1..Len(W) |-> LET s == SumSeq(W[i]) IN IF s = 0 THEN 1 ELSE s])

\* a weights matrix left as it was before the division
NotStandardized(W, row_sums) ==
    AsSeq([i \in 1..Len(W) |-> AsSeq([j \in 1..Len(W) |-> [num |-> W[i][j], den |-> 1]])])

\* W = W / row_sums[:, np.newaxis]: the weight of (i, j) is the quotient
\* num / den
RowStandardized(W, row_sums) ==
    AsSeq([i \in 1..Len(W) |-> AsSeq([j \in 1..Len(W) |->
        [num |-> W[i][j], den |-> row_sums[i]]])])

\* W as _calculate_morans_i holds it from line 86 on
StandardizedWeights(coords, thr_km) ==
    LET W == BinaryWeights(coords, (thr_km * 1000) \div 1000)
        row_sums == RowSums(W)
    IN  RowStandardized(W, row_sums)

\* W.sum() after row-standardization: every row with a neighbour sums to 1
WeightSum(W) == Cardinality({i \in 1..Len(W) : SumSeq(W[i]) > 0})

\* the standard normal distribution function at |z| = k / 10, in 1/10000
NormCdfTable ==
    <<5000, 5398, 5793, 6179, 6554, 6915, 7257, 7580, 7881, 8159,
      8413, 8643, 8849, 9032, 9192, 9332, 9452, 9554, 9641, 9713,
      9772, 9821, 9861, 9893, 9918, 9938, 9953, 9965, 9974, 9981,
      9987, 9990, 9993, 9995, 9997, 9998, 9998, 9999, 9999, 10000>>

\* 2 * (1 - stats.norm.cdf(abs(z))), z in thousandths, p in 1/10000
TwoSidedP(z) ==
    CASE z.t = "nan" -> NaN
      [] z.t \in {"inf", "ninf"} -> Fin(0)
      [] OTHER ->
           LET k == Abs(z.v) \div 100
           IN  Fin(2 * (10000 - (IF k >= Len(NormCdfTable) THEN 10000 ELSE NormCdfTable[k + 1])))

\* I = (n / W.sum()) * (numerator / denominator) if denominator > 0 else 0
\* with numerator and denominator both scaled by n * n
MoranStatistic(n, S0, numerator, denominator) ==
    IF denominator > 0
    THEN IF S0 = 0
         THEN NaN                                   \* (n / 0.0) * 0.0
         ELSE Fin(DivMicro(n * numerator, S0 * denominator))
    ELSE Fin(0)

\* np.sum(W * np.outer(x, x)), W row-standardized
Numerator(W, row_sums, x) ==
    SumSeq([i \in 1..Len(x) |->
        (x[i] * SumSeq([j \in 1..Len(x) |-> W[i][j] * x[j]])) \div row_sums[i]])

\* np.sum(x ** 2)
Denominator(x) == SumSeq([i \in 1..Len(x) |-> x[i] * x[i]])

MoranI(W, x) ==
    LET row_sums == RowSums(W)
        numerator == Numerator(W, row_sums, x)
        denominator == Denominator(x)
    IN  MoranStatistic(Len(x), WeightSum(W), numerator, denominator)

\* z = (I - E_I) / np.sqrt(var_I) in thousandths, E_I = -1 / (n - 1) and
\* var_I = 1 / (n - 1); for no point var_I is -1 and np.sqrt(var_I) is nan
ZScore(n, I) ==
    IF n = 0 THEN NaN
    ELSE IF IsFin(I) THEN Fin((I.v + Micro \div (n - 1)) \div Isqrt(Micro \div (n - 1)))
    ELSE I

MoranResult(n, I) ==
    IF n = 1
    THEN [status |-> "ZeroDivisionError"]           \* E_I = -1 / (n - 1)
    ELSE [status |-> "ok", I |-> I, p_value |-> TwoSidedP(ZScore(n, I))]

_calculate_morans_i(coords, thr_km) ==
    LET W == BinaryWeights(coords, (thr_km * 1000) \div 1000)
        x == Deviations(coords)
        I == MoranI(W, x)
    IN  MoranResult(Len(coords), I)

-----------------------------------------------------------------------------
(* gdi_standalone.py: interpretation labels                                *)

\* score thresholds are in 1/10000 score points
Points(n) == n * 10000

_interpret_pdi(pdi) ==
    IF FloatGe(pdi, Points(80)) THEN "Highly dispersed"
    ELSE IF FloatGe(pdi, Points(60)) THEN "Moderately dispersed"
    ELSE "Concentrated"

_interpret_hhi_based(score) ==
    IF FloatGe(score, Points(75)) THEN "Low concentration"
    ELSE IF FloatGe(score, Points(50)) THEN "Moderate concentration"
    ELSE IF FloatGe(score, Points(25)) THEN "High concentration"
    ELSE "Very high concentration"

_interpret_gdi(gdi) ==
    IF FloatGe(gdi, Points(80)) THEN "Highly decentralized"
    ELSE IF FloatGe(gdi, Points(60)) THEN "Moderately decentralized"
    ELSE IF FloatGe(gdi, Points(40)) THEN "Weakly decentralized"
    ELSE "Centralized"

-----------------------------------------------------------------------------
(* gdi_standalone.py: calculate_jdi, calculate_ihi                         *)

\* the square of the greatest share alone
HhiOfTopShare(vc, total_nodes) ==
    IF Len(vc) = 0 THEN 0
    ELSE DivMicro(vc[1].count * vc[1].count, total_nodes * total_nodes)

\* (shares ** 2).sum() in millionths; the sum over no category is 0
HhiMicro(vc, total_nodes) ==
    IF Len(vc) = 0 THEN 0
    ELSE DivMicro(SumSquares(vc), total_nodes * total_nodes)

\* counts.iloc[0] / total_nodes if len(counts) > 0 else 0, in millionths
TopShare(vc, total_nodes) ==
    IF Len(vc) > 0 THEN (vc[1].count * Micro) \div total_nodes ELSE 0

\* the HHI term with the weight 0.7 of the docstring
HhiComponentOfDocstring(hhi) == (7 * (Micro - hhi)) \div 10

\* 0.3 * (1 - hhi)
HhiComponent(hhi) == (3 * (Micro - hhi)) \div 10

\* 0.35 * min(1.0, np.log10(n) / divisor), the divisor given in tenths
DiversityBonus(n, divisor10) ==
    LET lg == Log10(n)
    IN  IF IsFin(lg)
        THEN Fin((35 * Min(Micro, (lg.v * 10) \div divisor10)) \div 100)
        ELSE lg

\* 0.35 * max(0, (top_share - floor) / width): floor in millionths, width
\* in hundredths
ConcentrationPenalty(top_share, floor, width100) ==
    (35 * Max(0, ((top_share - floor) * 100) \div width100)) \div 100

\* a reward that grows with the top share, in place of the penalty
JdiPenaltyReversed(top_country_share) == 0 - ConcentrationPenalty(top_country_share, 150000, 35)

JdiPenalty(top_country_share) == ConcentrationPenalty(top_country_share, 150000, 35)

IhiPenalty(top_org_share) == ConcentrationPenalty(top_org_share, 30000, 17)

\* the score with the concentration penalty left out
HhiBasedScoreWithoutPenalty(hhi_component, diversity_bonus, concentration_penalty) ==
    IF IsFin(diversity_bonus)
    THEN Fin(hhi_component + diversity_bonus.v)
    ELSE diversity_bonus

\* 100 * (hhi_component + diversity_bonus - concentration_penalty), in
\* 1/10000 score points
HhiBasedScore(hhi_component, diversity_bonus, concentration_penalty) ==
    IF IsFin(diversity_bonus)
    THEN Fin(hhi_component + diversity_bonus.v - concentration_penalty)
    ELSE diversity_bonus

\* round(fraction * 100, 1): a fraction in millionths to tenths of a point
Contribution(f) == Round1(f)

\* round(hhi, 3)
Round3(hhiMicro) == RoundHalfEven(hhiMicro, 1000)

\* the dictionary calculate_jdi and calculate_ihi return
HhiBasedResult(name, score_key, hhi_key, num_key, num, hhi, hhi_component, diversity_bonus, score) ==
    (score_key :> Round1(score)) @@ (hhi_key :> Round3(hhi)) @@ (num_key :> num) @@
    [op |-> name, status |-> "ok",
     interpretation |-> _interpret_hhi_based(score),
     hhi_contribution |-> Contribution(Fin(hhi_component)),
     diversity_contribution |-> Contribution(diversity_bonus)]

JdiOf(country_counts, total_nodes, country_hhi, diversity_bonus) ==
    HhiBasedResult("calculate_jdi", "jdi", "country_hhi", "num_countries",
        Len(country_counts), country_hhi, HhiComponent(country_hhi), diversity_bonus,
        HhiBasedScore(HhiComponent(country_hhi), diversity_bonus,
                      JdiPenalty(TopShare(country_counts, total_nodes))))

JdiOfCounts(country_counts, total_nodes) ==
    LET country_hhi == HhiMicro(country_counts, total_nodes)
        diversity_bonus == DiversityBonus(Len(country_counts), 20)
    IN  JdiOf(country_counts, total_nodes, country_hhi, diversity_bonus)

calculate_jdi(d) ==
    LET country_counts == value_counts(Column(d, "country"))
    IN  JdiOfCounts(country_counts, Len(d))

IhiOf(org_counts, total_nodes, org_hhi, diversity_bonus) ==
    HhiBasedResult("calculate_ihi", "ihi", "org_hhi", "num_orgs",
        Len(org_counts), org_hhi, HhiComponent(org_hhi), diversity_bonus,
        HhiBasedScore(HhiComponent(org_hhi), diversity_bonus,
                      IhiPenalty(TopShare(org_counts, total_nodes))))

IhiOfCounts(org_counts, total_nodes) ==
    LET org_hhi == HhiMicro(org_counts, total_nodes)
        diversity_bonus == DiversityBonus(Len(org_counts), 35)
    IN  IhiOf(org_counts, total_nodes, org_hhi, diversity_bonus)

calculate_ihi(d) ==
    LET org_counts == value_counts(Column(d, "org"))
    IN  IhiOfCounts(org_counts, Len(d))

-----------------------------------------------------------------------------
(* gdi_standalone.py: _calculate_spatial_hhi, _calculate_enl, calculate_pdi *)

\* threshold_km = 500.0 and h3_resolution = 5, the defaults of calculate_pdi
DefaultThresholdKm == 500 * Milli
DefaultResolution == 5

\* cells.value_counts() of df.apply(h3.latlng_to_cell(...), axis=1)
CellCounts(d, resolution) ==
    LET cells == AsSeq([i \in 1..Len(d) |-> latlng_to_cell(d[i], resolution)])
    IN  value_counts(cells)

\* (hhi, num_cells), hhi in millionths
SpatialHhiOf(cell_counts, total_nodes) ==
    [hhi |-> HhiMicro(cell_counts, total_nodes), num_cells |-> Len(cell_counts)]

_calculate_spatial_hhi(d, resolution) ==
    LET cell_counts == CellCounts(d, resolution)
    IN  SpatialHhiOf(cell_counts, Len(d))

\* the entropy of the points as if every point had a cell of its own
EntropyOfPoints(cell_counts, total_nodes) == Ln(total_nodes)

\* -np.sum(probabilities * np.log(probabilities)), in millionths
Entropy(cell_counts, total_nodes) ==
    SumSeq([i \in 1..Len(cell_counts) |->
        (cell_counts[i].count * (Ln(total_nodes) - Ln(cell_counts[i].count)))
            \div total_nodes])

\* np.exp(entropy), in 1/10000
_calculate_enl(d, resolution) ==
    LET cell_counts == CellCounts(d, resolution)
    IN  Exp(Entropy(cell_counts, Len(d)))

\* Python's min(a, b) and max(a, b) of a finite a and a float b: b is
\* returned only when b < a (b > a) is True, which it never is for nan
PyMin(a, b) == IF FloatLt(b, a) THEN b ELSE Fin(a)
PyMax(a, b) == IF FloatGe(b, a) /\ b # Fin(a) THEN b ELSE Fin(a)

\* (1 - morans_i) with neither bound applied
MoransNormUnclipped(morans_i) == IF IsFin(morans_i) THEN Micro - morans_i.v ELSE 0

\* max(0, min(1, (1 - morans_i))), in millionths
MoransNorm(morans_i) ==
    LET one_minus == IF IsFin(morans_i) THEN Fin(Micro - morans_i.v)
                     ELSE IF morans_i.t = "inf" THEN NegInf
                     ELSE IF morans_i.t = "ninf" THEN PosInf
                     ELSE NaN
    IN  PyMax(0, PyMin(Micro, one_minus)).v

\* a norm that falls as enl grows
EnlNormInverted(enl) == Micro - Min(Micro, enl \div 20)

\* min(1.0, enl / 2000), in millionths
EnlNorm(enl) == Min(Micro, enl \div 20)

\* 100 * (0.4 * morans_norm + 0.3 * enl_norm + 0.3 * hhi_norm), in 1/10000
PdiScore(morans_norm, enl_norm, hhi_norm) ==
    (4 * morans_norm) \div 10 + (3 * enl_norm) \div 10 + (3 * hhi_norm) \div 10

\* round(morans_i, 3) and round(morans_p, 4)
RoundMicro3(f) == IF IsFin(f) THEN Fin(RoundHalfEven(f.v, 1000)) ELSE f

\* the dictionary calculate_pdi returns
PdiResult(name, morans_i, morans_p, hhi, enl, num_cells, morans_norm, enl_norm, hhi_norm) ==
    [op |-> name, status |-> "ok",
     pdi |-> Round1(Fin(PdiScore(morans_norm, enl_norm, hhi_norm))),
     morans_i |-> RoundMicro3(morans_i),
     morans_p_value |-> morans_p,
     spatial_hhi |-> Round3(hhi),
     enl |-> RoundHalfEven(enl, 1000),
     total_cells |-> num_cells,
     interpretation |-> _interpret_pdi(Fin(PdiScore(morans_norm, enl_norm, hhi_norm))),
     morans_contribution |-> Contribution(Fin((4 * morans_norm) \div 10)),
     enl_contribution |-> Contribution(Fin((3 * enl_norm) \div 10)),
     hhi_contribution |-> Contribution(Fin((3 * hhi_norm) \div 10))]

PdiOf(moran, sh, enl) ==
    IF moran.status # "ok"
    THEN [op |-> "calculate_pdi", status |-> moran.status]
    ELSE PdiResult("calculate_pdi", moran.I, moran.p_value, sh.hhi, enl, sh.num_cells,
                   MoransNorm(moran.I), EnlNorm(enl), Micro - sh.hhi)

calculate_pdi(d, thr_km, h3_resolution) ==
    LET moran == _calculate_morans_i(Coords(d), thr_km)
        sh == _calculate_spatial_hhi(d, h3_resolution)
        enl == _calculate_enl(d, h3_resolution)
    IN  PdiOf(moran, sh, enl)

-----------------------------------------------------------------------------
(* gdi_standalone.py: calculate_gdi                                        *)

\* weights = (0.35, 0.2, 0.1, 0.35), in hundredths
DefaultWeights == <<35, 20, 10, 35>>

\* df.dropna(subset=["lat", "lon", "country", "org"])
RECURSIVE dropna(_)
dropna(d) ==
    IF d = <<>> THEN <<>>
    ELSE IF Head(d).country = NULL \/ Head(d).org = NULL THEN dropna(Tail(d))
    ELSE <<Head(d)>> \o dropna(Tail(d))

\* 100 * min(1.0, (total_nodes / 50000) ** 0.5), in 1/10000
NetworkSizeScore(total_nodes) ==
    IF total_nodes >= 50000 THEN 100 * 10000
    ELSE IF total_nodes <= 100 THEN Isqrt(total_nodes * 20 * Micro)
    ELSE 100 * Isqrt(total_nodes * 2000)

\* w_pdi * pdi + w_jdi * jdi + w_ihi * ihi + w_size * network_size_score,
\* the sub-scores as reported (tenths), the sum in 1/10000
WeightedSum(weights, pdi, jdi, ihi, network_size_score) ==
    IF ~IsFin(jdi) THEN jdi
    ELSE IF ~IsFin(ihi) THEN ihi
    ELSE Fin(weights[1] * pdi.v * 10 + weights[2] * jdi.v * 10 + weights[3] * ihi.v * 10
             + (weights[4] * network_size_score) \div 100)

\* the dictionary calculate_gdi returns
GdiResult(gdi, pdi_result, jdi_result, ihi_result, network_size_score, weights, total_nodes) ==
    [op |-> "calculate_gdi", status |-> "ok",
     gdi |-> Round1(gdi),
     pdi |-> pdi_result,
     jdi |-> jdi_result,
     ihi |-> ihi_result,
     network_size_score |-> RoundHalfEven(network_size_score, 1000),
     weights |-> weights,
     interpretation |-> _interpret_gdi(gdi),
     total_nodes |-> total_nodes]

GdiOf(pdi_result, jdi_result, ihi_result, network_size_score, weights, total_nodes) ==
    IF pdi_result.status # "ok"
    THEN [op |-> "calculate_gdi", status |-> pdi_result.status]
    ELSE LET gdi == WeightedSum(weights, pdi_result.pdi, jdi_result.jdi, ihi_result.ihi,
                                network_size_score)
         IN  GdiResult(gdi, pdi_result, jdi_result, ihi_result, network_size_score,
                       weights, total_nodes)

\* calculate_gdi after df = df.dropna(...)
GdiOfRows(d, weights) ==
    LET pdi_result == calculate_pdi(d, DefaultThresholdKm, DefaultResolution)
        jdi_result == calculate_jdi(d)
        ihi_result == calculate_ihi(d)
    IN  GdiOf(pdi_result, jdi_result, ihi_result, NetworkSizeScore(Len(d)), weights, Len(d))

calculate_gdi(frame, weights) ==
    LET d == dropna(frame)
    IN  GdiOfRows(d, weights)

-----------------------------------------------------------------------------
(* spatial_metrics.py: SpatialAnalyzer.average_nearest_neighbor            *)

SeqMin(s) == CHOOSE v \in {s[i] : i \in 1..Len(s)} : \A i \in 1..Len(s) : v <= s[i]
SeqMax(s) == CHOOSE v \in {s[i] : i \in 1..Len(s)} : \A i \in 1..Len(s) : v >= s[i]

\* (bounds[2] - bounds[0]) * (bounds[3] - bounds[1]) of total_bounds
BoundsArea(coords) ==
    LET xs == [i \in 1..Len(coords) |-> coords[i][1]]
        ys == [i \in 1..Len(coords) |-> coords[i][2]]
    IN  (SeqMax(xs) - SeqMin(xs)) * (SeqMax(ys) - SeqMin(ys))

\* distances[:, 1] of tree.query(coords, k=2)
NearestDistances(coords) == AsSeq([i \in 1..Len(coords) |-> KthDistance(coords, i, 2)])

\* nearest_distances.mean() in thousandths of a metre: the distance to the
\* 2nd nearest point, itself included, is inf for a single point
MeanDistance(nearest) ==
    IF \E i \in 1..Len(nearest) : ~IsFin(nearest[i]) THEN PosInf
    ELSE Fin((SumSeq([i \in 1..Len(nearest) |-> nearest[i].v]) * Milli) \div Len(nearest))

ObservedMean(coords) ==
    LET nearest == NearestDistances(coords)
    IN  MeanDistance(nearest)

\* 0.5 / np.sqrt(density) with density = n / area_m2, in thousandths:
\* n / 0.0 is inf and 0.5 / sqrt(inf) is 0.0
ExpectedMean(n, area_m2) ==
    IF area_m2 = 0 THEN Fin(0) ELSE Fin(Isqrt((area_m2 * Micro) \div n) \div 2)

\* 0.26136 / np.sqrt(n * density), in thousandths
StandardError(n, area_m2) ==
    IF area_m2 = 0 THEN Fin(0) ELSE Fin((26136 * Isqrt(area_m2 * Micro)) \div (100000 * n))

AnnInterpretation(p_value, nn_index) ==
    IF FloatLt(p_value, 100)
    THEN IF FloatLt(nn_index, Milli) THEN "Significant clustering" ELSE "Significant dispersion"
    ELSE IF FloatLt(p_value, 500)
    THEN IF FloatLt(nn_index, Milli) THEN "Moderate clustering" ELSE "Moderate dispersion"
    ELSE "Random pattern"

\* the ANNResult
AnnResult(n, area_m2, observed_mean_m, expected_mean_m, nn_index, z_score, p_value) ==
    [op |-> "average_nearest_neighbor", status |-> "ok",
     value |-> nn_index,
     p_value |-> p_value,
     z_score |-> z_score,
     observed_distance_m |-> observed_mean_m,
     expected_distance_m |-> expected_mean_m,
     interpretation |-> AnnInterpretation(p_value, nn_index),
     n_nodes |-> n,
     study_area_m2 |-> area_m2]

AnnSignificance(n, area_m2, observed_mean_m, expected_mean_m, nn_index, z_score) ==
    AnnResult(n, area_m2, observed_mean_m, expected_mean_m, nn_index, z_score,
              TwoSidedP(z_score))

AnnOf(n, area_m2, observed_mean_m, expected_mean_m, se) ==
    LET nn_index == FloatDiv(observed_mean_m, expected_mean_m, Milli)
        z_score == FloatDiv(FloatSub(observed_mean_m, expected_mean_m), se, Milli)
    IN  AnnSignificance(n, area_m2, observed_mean_m, expected_mean_m, nn_index, z_score)

AnnOfArea(n, area_m2, observed_mean_m) ==
    LET expected_mean_m == ExpectedMean(n, area_m2)
        se == StandardError(n, area_m2)
    IN  AnnOf(n, area_m2, observed_mean_m, expected_mean_m, se)

average_nearest_neighbor(coords) ==
    LET area_m2 == BoundsArea(coords)
        observed_mean_m == ObservedMean(coords)
    IN  AnnOfArea(Len(coords), area_m2, observed_mean_m)

-----------------------------------------------------------------------------
(* spatial_metrics.py: spatial_hhi, effective_num_locations;               *)
(* gdi_v0_final.py: calculate_pdi                                          *)

\* labels whose 'Moderate' band takes in an HHI of 0.25
HhiInterpretationInclusive(hhi) ==
    IF hhi < 150000 THEN "Low concentration"
    ELSE IF hhi <= 250000 THEN "Moderate concentration"
    ELSE "High concentration"

\* the label of lines 171-176, without the numbers the f-strings append
HhiInterpretation(hhi) ==
    IF hhi < 150000 THEN "Low concentration"
    ELSE IF hhi < 250000 THEN "Moderate concentration"
    ELSE "High concentration"

SpatialHHIResult(cell_counts, total_nodes, hhi, resolution) ==
    [value |-> hhi,
     grid_resolution |-> resolution,
     num_cells_occupied |-> Len(cell_counts),
     max_cell_share |-> TopShare(cell_counts, total_nodes),
     interpretation |-> HhiInterpretation(hhi)]

SpatialHhiOfCounts(cell_counts, total_nodes, resolution) ==
    LET hhi == HhiMicro(cell_counts, total_nodes)
    IN  SpatialHHIResult(cell_counts, total_nodes, hhi, resolution)

spatial_hhi(d, resolution) ==
    LET cell_counts == CellCounts(d, resolution)
    IN  SpatialHhiOfCounts(cell_counts, Len(d), resolution)

\* evenness = enl / num_cells in millionths, enl in 1/10000
Evenness(enl, num_cells) == (enl * 100) \div num_cells

EnlInterpretation(evenness) ==
    IF evenness > 800000 THEN "Very even distribution"
    ELSE IF evenness > 500000 THEN "Moderately even distribution"
    ELSE "Uneven distribution"

ENLResult(enl, entropy, num_cells) ==
    [value |-> enl,
     total_locations |-> num_cells,
     entropy |-> entropy,
     interpretation |-> EnlInterpretation(Evenness(enl, num_cells))]

EnlOfEntropy(entropy, num_cells) ==
    LET enl == Exp(entropy)
    IN  ENLResult(enl, entropy, num_cells)

EnlOfCounts(cell_counts, total_nodes) ==
    LET entropy == Entropy(cell_counts, total_nodes)
    IN  EnlOfEntropy(entropy, Len(cell_counts))

effective_num_locations(d, resolution) ==
    LET cell_counts == CellCounts(d, resolution)
    IN  EnlOfCounts(cell_counts, Len(d))

\* the label of lines 100-112 for esda.Moran's I (millionths) and p_sim
\* (1/10000), without the numbers the f-strings append to it
MoranInterpretationClusteringOnly(I, p_sim) ==
    IF FloatLt(p_sim, 100) THEN "Significant clustering"
    ELSE IF FloatLt(p_sim, 500) THEN "Moderate clustering"
    ELSE "Random distribution"

MoranInterpretation(I, p_sim) ==
    IF FloatLt(p_sim, 100)
    THEN IF FloatGt(I, 0) THEN "Significant clustering" ELSE "Significant dispersion"
    ELSE IF FloatLt(p_sim, 500)
    THEN IF FloatGt(I, 0) THEN "Moderate clustering" ELSE "Moderate dispersion"
    ELSE "Random distribution"

\* SpatialAnalyzer.morans_i from line 99 on; moran is what esda.Moran
\* computed for the analyzer's points
morans_i(moran, thr_km) ==
    [op |-> "morans_i", status |-> "ok",
     value |-> moran.value,
     p_value |-> moran.p_value,
     interpretation |-> MoranInterpretation(moran.value, moran.p_value),
     spatial_weights_type |-> "distance_band",
     threshold_km |-> thr_km]

-----------------------------------------------------------------------------
(* spatial_metrics.py: the SpatialAnalyzer object. GeoDataFrames are       *)
(* objects: frames[ref] is the frame behind the reference ref, its rows    *)
(* and the columns 'h3_cell' and 'density' that the methods add.           *)

NoColumn == [present |-> FALSE, values |-> <<>>]

ColumnOf(values) == [present |-> TRUE, values |-> values]

\* a GeoDataFrame of the given rows, as the caller built it
GeoDataFrame(rows) == [rows |-> rows, h3_cell |-> NoColumn, density |-> NoColumn]

\* a reference to the same object instead of a copy of it
ShareFrame(heap, ref) == [heap |-> heap, ref |-> ref]

\* gdf.copy(): a new object with the rows and columns of the old one
CopyFrame(heap, ref) == [heap |-> Append(heap, heap[ref]), ref |-> Len(heap) + 1]

\* gdf.to_crs('ESRI:54009'): a new object; x and y of a row are the
\* projected coordinates already
to_crs(heap, ref) == [heap |-> Append(heap, heap[ref]), ref |-> Len(heap) + 1]

\* SpatialAnalyzer.__init__(gdf)
SpatialAnalyzerInit(heap, gdf) ==
    LET copy == CopyFrame(heap, gdf)
        projected == to_crs(copy.heap, copy.ref)
    IN  [heap |-> projected.heap,
         self |-> [constructed |-> TRUE, gdf |-> copy.ref, gdf_projected |-> projected.ref]]

\* gdf.apply(lambda row: h3.latlng_to_cell(...), axis=1)
H3Cells(rows, resolution) ==
    AsSeq([i \in 1..Len(rows) |-> latlng_to_cell(rows[i], resolution)])

\* an 'h3_cell' column that is computed once and kept from then on
KeepH3Cell(frame, resolution) ==
    IF frame.h3_cell.present THEN frame
    ELSE [frame EXCEPT !.h3_cell = ColumnOf(H3Cells(frame.rows, resolution))]

\* self.gdf['h3_cell'] = self.gdf.apply(...)
SetH3Cell(frame, resolution) ==
    [frame EXCEPT !.h3_cell = ColumnOf(H3Cells(frame.rows, resolution))]

\* SpatialAnalyzer.spatial_hhi(resolution): the heap after the call and
\* what it returns
AnalyzerSpatialHhi(heap, self, resolution) ==
    LET gdf == SetH3Cell(heap[self.gdf], resolution)
        cell_counts == value_counts(gdf.h3_cell.values)
    IN  [heap |-> [heap EXCEPT ![self.gdf] = gdf],
         ret |-> [op |-> "spatial_hhi"]
                 @@ SpatialHhiOfCounts(cell_counts, Len(gdf.rows), resolution)]

\* SpatialAnalyzer.effective_num_locations(resolution)
AnalyzerEnl(heap, self, resolution) ==
    LET gdf == SetH3Cell(heap[self.gdf], resolution)
        cell_counts == value_counts(gdf.h3_cell.values)
    IN  [heap |-> [heap EXCEPT ![self.gdf] = gdf],
         ret |-> [op |-> "effective_num_locations", resolution |-> resolution]
                 @@ EnlOfCounts(cell_counts, Len(gdf.rows))]

\* _calculate_local_density: the gaussian kernel of bandwidth 100 km is
\* taken as 1 for two points within the bandwidth of each other and as 0
\* beyond it; the density of a point is the number of points it counts
_calculate_local_density(coords) ==
    AsSeq([i \in 1..Len(coords) |->
        Cardinality({j \in 1..Len(coords) : Within(coords[i], coords[j], 100 * Milli)})])

\* SpatialAnalyzer.morans_i(threshold_km=thr_km); moran is what esda.Moran
\* computed
AnalyzerMoransI(heap, self, thr_km, moran) ==
    LET projected == heap[self.gdf_projected]
        density == _calculate_local_density(Coords(projected.rows))
    IN  [heap |-> [heap EXCEPT ![self.gdf_projected].density = ColumnOf(density)],
         ret |-> morans_i(moran, thr_km)]

\* SpatialAnalyzer.average_nearest_neighbor()
AnalyzerAnn(heap, self) ==
    [heap |-> heap,
     ret |-> average_nearest_neighbor(Coords(heap[self.gdf_projected].rows))]

\* SpatialAnalyzer.compute_all_metrics(threshold_km, h3_resolution)
compute_all_metrics(heap, self, thr_km, h3_resolution, moran) ==
    LET first == AnalyzerMoransI(heap, self, thr_km, moran)
        second == AnalyzerSpatialHhi(first.heap, self, h3_resolution)
        third == AnalyzerEnl(second.heap, self, h3_resolution)
        fourth == AnalyzerAnn(third.heap, self)
    IN  [heap |-> fourth.heap,
         ret |-> [op |-> "compute_all_metrics", status |-> "ok",
                  morans_i |-> first.ret, spatial_hhi |-> second.ret,
                  enl |-> third.ret, ann |-> fourth.ret]]

-----------------------------------------------------------------------------
(* demo.py: main. A run directory is modelled by its name and by what main *)
(* writes into it: the input metadata, the run configuration and the       *)
(* results.                                                                *)

\* hashlib.md5(input_hash_data).hexdigest()[:8]: the hash stands for the
\* string it is taken of, f"ethereum_{len(gdf)}nodes_{threshold_km}km_h3res{h3_resolution}"
RunHash(gdf, params) == <<"ethereum", Len(gdf), params.threshold_km, params.h3_resolution>>

\* f"ethereum_{len(gdf)}nodes_500km_h3-5_{run_hash}"
RunName(gdf, params) == <<"ethereum", Len(gdf), "500km_h3-5", RunHash(gdf, params)>>

\* main() with gdf what load_sample_data returned, params the parameters of
\* lines 46-50 and moran what esda.Moran computes: the directories after
\* the run and its outcome
main(dirs, gdf, params, moran) ==
    LET run_name == RunName(gdf, params)
    IN  IF \E d \in dirs : d.run_name = run_name                \* output_dir.exists()
        THEN [dirs |-> dirs,
              ret |-> [op |-> "main", status |-> "skipped", run_name |-> run_name,
                       parameters |-> params]]
        ELSE LET made == SpatialAnalyzerInit(<<GeoDataFrame(gdf)>>, 1)
                 call == compute_all_metrics(made.heap, made.self, params.threshold_km,
                                             params.h3_resolution, moran)
             IN  [dirs |-> dirs \cup {[run_name |-> run_name, input |-> gdf,
                                       parameters |-> params, results |-> call.ret]},
                  ret |-> [op |-> "main", status |-> "ok", run_name |-> run_name,
                           parameters |-> params, results |-> call.ret]]

\* gdi_v0_final.calculate_pdi; morans_result is what SpatialAnalyzer.morans_i
\* returned (esda.Moran's I and p_sim)
PdiV0Of(morans_result, hhi_result, enl_result) ==
    PdiResult("calculate_pdi_v0", morans_result.value, morans_result.p_value,
              hhi_result.value, enl_result.value, enl_result.total_locations,
              MoransNorm(morans_result.value),
              Evenness(enl_result.value, enl_result.total_locations),
              Micro - hhi_result.value)

calculate_pdi_v0(d, h3_resolution, morans_result) ==
    LET hhi_result == spatial_hhi(d, h3_resolution)
        enl_result == effective_num_locations(d, h3_resolution)
    IN  PdiV0Of(morans_result, hhi_result, enl_result)

-----------------------------------------------------------------------------
(* simple_metrics.py and gdi_v0_final.py: the other two calculate_gdi      *)

\* the sum of the counts of value_counts(): the rows that are counted
SumCounts(vc) == SumSeq([i \in 1..Len(vc) |-> vc[i].count])

\* w * x for a weight w >= 0 in hundredths and a float x in tenths, in
\* 1/10000: 0.0 * inf is nan
FloatScale(w, x) ==
    CASE x.t = "fin" -> Fin(w * x.v * 10)
      [] x.t = "nan" -> NaN
      [] OTHER -> IF w = 0 THEN NaN ELSE x

\* a + b for floats: inf + -inf is nan
FloatAdd(a, b) ==
    CASE a.t = "nan" \/ b.t = "nan" -> NaN
      [] a.t = "fin" /\ b.t = "fin" -> Fin(a.v + b.v)
      [] a.t = "fin" -> b
      [] b.t = "fin" -> a
      [] OTHER -> IF a.t = b.t THEN a ELSE NaN

\* w_pdi * pdi + w_jdi * jdi + w_ihi * ihi, the sub-scores as reported
\* (tenths), the weights in hundredths, the sum in 1/10000
WeightedSum3(weights, pdi, jdi, ihi) ==
    FloatAdd(FloatAdd(FloatScale(weights[1], pdi), FloatScale(weights[2], jdi)),
             FloatScale(weights[3], ihi))

\* the dictionary that the calculate_gdi of either file returns
Gdi3Result(name, weights, pdi_result, jdi_result, ihi_result, total_nodes) ==
    LET gdi == WeightedSum3(weights, pdi_result.pdi, jdi_result.jdi, ihi_result.ihi)
    IN  [op |-> name, status |-> "ok",
         gdi |-> Round1(gdi),
         pdi |-> pdi_result,
         jdi |-> jdi_result,
         ihi |-> ihi_result,
         weights |-> weights,
         interpretation |-> _interpret_gdi(gdi),
         total_nodes |-> total_nodes]

\* simple_metrics.calculate_pdi: pdi = 100 * (1 - spatial_hhi)
simple_calculate_pdi(d, h3_resolution) ==
    LET cell_counts == CellCounts(d, h3_resolution)
        hhi == HhiMicro(cell_counts, Len(d))
    IN  [pdi |-> Round1(Fin(Micro - hhi)),
         spatial_hhi |-> Round3(hhi),
         num_cells |-> Len(cell_counts),
         interpretation |-> _interpret_pdi(Fin(Micro - hhi))]

simple_interpret_jdi(jdi) ==
    IF FloatGe(jdi, Points(70)) THEN "High diversity"
    ELSE IF FloatGe(jdi, Points(40)) THEN "Moderate diversity"
    ELSE "Low diversity"

\* simple_metrics.calculate_jdi: jdi = 100 * (exp(entropy) / num_countries)
\* with probabilities = country_counts / len(df); 1.0 / 0 is inf in numpy
simple_calculate_jdi(d) ==
    LET country_counts == value_counts(Column(d, "country"))
        entropy == Entropy(country_counts, Len(d))
        effective_countries == Exp(entropy)
        jdi == IF Len(country_counts) = 0 THEN PosInf
               ELSE Fin((100 * effective_countries) \div Len(country_counts))
    IN  [jdi |-> Round1(jdi),
         num_countries |-> Len(country_counts),
         effective_countries |-> RoundHalfEven(effective_countries, 1000),
         entropy |-> Round3(entropy),
         interpretation |-> simple_interpret_jdi(jdi)]

\* _categorize_provider(row): an org stands for the provider its text
\* names; a missing org reads 'nan' and falls to the last branch, 'Home/ISP'
HomeISP == 9

_categorize_provider(row) == IF row.org = NULL THEN HomeISP ELSE row.org

simple_interpret_ihi(ihi) ==
    IF FloatGe(ihi, Points(75)) THEN "Competitive (no monopoly)"
    ELSE IF FloatGe(ihi, Points(50)) THEN "Moderate concentration"
    ELSE "High concentration"

\* simple_metrics.calculate_ihi: ihi = 100 * (1 - provider_hhi)
simple_calculate_ihi(d) ==
    LET provider == AsSeq([i \in 1..Len(d) |-> _categorize_provider(d[i])])
        provider_counts == value_counts(provider)
        provider_hhi == HhiMicro(provider_counts, Len(d))
    IN  [ihi |-> Round1(Fin(Micro - provider_hhi)),
         provider_hhi |-> Round3(provider_hhi),
         num_providers |-> Len(provider_counts),
         interpretation |-> simple_interpret_ihi(Fin(Micro - provider_hhi))]

\* simple_metrics.calculate_gdi(df, weights)
simple_calculate_gdi(d, weights) ==
    LET pdi_result == simple_calculate_pdi(d, DefaultResolution)
        jdi_result == simple_calculate_jdi(d)
        ihi_result == simple_calculate_ihi(d)
    IN  Gdi3Result("simple_metrics.calculate_gdi", weights, pdi_result, jdi_result,
                   ihi_result, Len(d))

\* gdi_v0_final.calculate_jdi and calculate_ihi: 100 * (1 - HHI) of the
\* column's value_counts() / len(df)
v0_hhi_index(d, col, score_key, hhi_key, num_key) ==
    LET counts == value_counts(Column(d, col))
        hhi == HhiMicro(counts, Len(d))
    IN  (score_key :> Round1(Fin(Micro - hhi))) @@ (hhi_key :> Round3(hhi))
        @@ (num_key :> Len(counts))
        @@ [interpretation |-> _interpret_hhi_based(Fin(Micro - hhi))]

v0_calculate_jdi(d) == v0_hhi_index(d, "country", "jdi", "country_hhi", "num_countries")

v0_calculate_ihi(d) == v0_hhi_index(d, "org", "ihi", "org_hhi", "num_orgs")

\* gdi_v0_final.calculate_gdi(df, weights); morans_result is what the
\* analyzer's morans_i returns within calculate_pdi
v0_calculate_gdi(frame, weights, morans_result) ==
    LET d == dropna(frame)
        pdi_result == calculate_pdi_v0(d, DefaultResolution, morans_result)
        jdi_result == v0_calculate_jdi(d)
        ihi_result == v0_calculate_ihi(d)
    IN  Gdi3Result("gdi_v0_final.calculate_gdi", weights, pdi_result, jdi_result,
                   ihi_result, Len(d))

-----------------------------------------------------------------------------
(* models.py: NodeLocation; latitude and longitude are floats in degrees   *)

\* validate_coordinates raises for nan and for the infinities
validate_coordinates(v) == IsFin(v)

\* NodeLocation(latitude=lat, longitude=lon, ...): Field(ge=-90, le=90),
\* Field(ge=-180, le=180) and the validator; the other fields carry no
\* constraint on the coordinates
NodeLocation(lat, lon) ==
    IF /\ FloatGe(lat, -90) /\ FloatLe(lat, 90)
       /\ FloatGe(lon, -180) /\ FloatLe(lon, 180)
       /\ validate_coordinates(lat) /\ validate_coordinates(lon)
    THEN [op |-> "NodeLocation", status |-> "ok", latitude |-> lat, longitude |-> lon]
    ELSE [op |-> "NodeLocation", status |-> "ValidationError", latitude |-> lat,
          longitude |-> lon]

-----------------------------------------------------------------------------
(* Inputs of the category indices: DataFrames whose country and org        *)
(* columns hold one top category of `top` rows and m - 1 further           *)
(* categories of `rest` <= top rows each.                                  *)

MaxTop == 5
MaxRest == 2
MaxCats == 34

CatRow(k) == [x |-> 0, y |-> 0, country |-> k, org |-> k]

TopRows(top) == [i \in 1..top |-> CatRow(1)]

RestRows(rest, m) == [i \in 1..(rest * (m - 1)) |-> CatRow(2 + ((i - 1) \div rest))]

CatFrame(top, rest, m) == TopRows(top) \o RestRows(rest, m)

CatFrames ==
    UNION {{CatFrame(top, rest, m) : rest \in 1..Min(top, MaxRest), m \in 1..MaxCats} : top \in 1..MaxTop}

Idle == ret.op = "none"

InitCat ==
    /\ df \in CatFrames
    /\ threshold_km = DefaultThresholdKm
    /\ ret = [op |-> "none"]
    /\ NoObjects

CallJdi ==
    /\ Idle
    /\ ret' = calculate_jdi(df)
    /\ UNCHANGED <<df, threshold_km, objects>>

CallIhi ==
    /\ Idle
    /\ ret' = calculate_ihi(df)
    /\ UNCHANGED <<df, threshold_km, objects>>

NextCat == CallJdi \/ CallIhi

SpecCat == InitCat /\ [][NextCat]_vars

-----------------------------------------------------------------------------
(* Inputs of the spatial metrics: point sets over six positions whose      *)
(* pairwise distances are whole metres, in a fixed order of the rows.      *)

MaxRows == 6

Positions == <<<<0, 0>>, <<5, 0>>, <<9, 0>>, <<16, 0>>, <<35, 0>>, <<0, 12>>>>

\* threshold_km values, in thousandths of a km: 2 m, 6 m and the default
Thresholds == {2, 6, DefaultThresholdKm}

PointRow(k) == [x |-> Positions[k][1], y |-> Positions[k][2], country |-> 1, org |-> 1]

PositionIndex(row) == CHOOSE k \in 1..Len(Positions) : Positions[k] = <<row.x, row.y>>

Init ==
    /\ df = <<>>
    /\ threshold_km \in Thresholds
    /\ ret = [op |-> "none"]
    /\ NoObjects

AddRow ==
    /\ Idle
    /\ Len(df) < MaxRows
    /\ \E k \in 1..Len(Positions) :
         /\ df # <<>> => PositionIndex(df[Len(df)]) <= k
         /\ df' = Append(df, PointRow(k))
    /\ UNCHANGED <<threshold_km, ret, objects>>

CallMoransI ==
    /\ Idle
    /\ Len(df) >= 1
    /\ ret' = [op |-> "_calculate_morans_i"] @@ _calculate_morans_i(Coords(df), threshold_km)
    /\ UNCHANGED <<df, threshold_km, objects>>

CallPdi ==
    /\ Idle
    /\ Len(df) >= 1
    /\ ret' = calculate_pdi(df, threshold_km, DefaultResolution)
    /\ UNCHANGED <<df, threshold_km, objects>>

CallAnn ==
    /\ Idle
    /\ Len(df) >= 1
    /\ ret' = average_nearest_neighbor(Coords(df))
    /\ UNCHANGED <<df, threshold_km, objects>>

\* what esda.Moran can report for a point set: I (millionths) of either
\* sign and any magnitude, nan for a constant attribute, and p_sim (1/10000)
MoranValues ==
    {[value |-> Fin(-1500000), p_value |-> Fin(10)],
     [value |-> Fin(-300000), p_value |-> Fin(400)],
     [value |-> Fin(250000), p_value |-> Fin(2500)],
     [value |-> Fin(1800000), p_value |-> Fin(10)],
     [value |-> NaN, p_value |-> NaN]}

CallPdiV0 ==
    /\ Idle
    /\ Len(df) >= 1
    /\ \E morans_result \in MoranValues :
         ret' = calculate_pdi_v0(df, DefaultResolution, morans_result)
    /\ UNCHANGED <<df, threshold_km, objects>>

Next == AddRow \/ CallMoransI \/ CallPdi \/ CallPdiV0 \/ CallAnn

Spec == Init /\ [][Next]_vars

-----------------------------------------------------------------------------
(* Inputs of calculate_gdi: rows at three positions, the third 600 km      *)
(* from the others, with a country and an org that may be missing.         *)

MaxGdiRows == 3

GdiPositions == <<<<0, 0>>, <<5, 0>>, <<600 * Milli, 0>>>>

Labels == {NULL, 1, 2}

GdiRow(k, c, o) ==
    [x |-> GdiPositions[k][1], y |-> GdiPositions[k][2], country |-> c, org |-> o]

\* the rows in a fixed order
RowRank(row) ==
    LET k == CHOOSE i \in 1..Len(GdiPositions) : GdiPositions[i] = <<row.x, row.y>>
    IN  9 * k + 3 * row.country + row.org

InitGdi ==
    /\ df = <<>>
    /\ threshold_km = DefaultThresholdKm
    /\ ret = [op |-> "none"]
    /\ NoObjects

AddGdiRow ==
    /\ Idle
    /\ Len(df) < MaxGdiRows
    /\ \E k \in 1..Len(GdiPositions), c \in Labels, o \in Labels :
         /\ df # <<>> => RowRank(df[Len(df)]) <= RowRank(GdiRow(k, c, o))
         /\ df' = Append(df, GdiRow(k, c, o))
    /\ UNCHANGED <<threshold_km, ret, objects>>

CallGdi ==
    /\ Idle
    /\ Len(dropna(df)) >= 1
    /\ ret' = calculate_gdi(df, DefaultWeights)
    /\ UNCHANGED <<df, threshold_km, objects>>

NextGdi == AddGdiRow \/ CallGdi

SpecGdi == InitGdi /\ [][NextGdi]_vars

-----------------------------------------------------------------------------
(* Inputs of _calculate_morans_i in every order of the rows: point sets    *)
(* over the first three positions, which lie on one line 5 m and 4 m       *)
(* apart.                                                                  *)

MaxMoranRows == 6

LinePositions == 1..3

InitMoran ==
    /\ df = <<>>
    /\ threshold_km \in Thresholds
    /\ ret = [op |-> "none"]
    /\ NoObjects

AddAnyRow ==
    /\ Idle
    /\ Len(df) < MaxMoranRows
    /\ \E k \in LinePositions : df' = Append(df, PointRow(k))
    /\ UNCHANGED <<threshold_km, ret, objects>>

NextMoran == AddAnyRow \/ CallMoransI

SpecMoran == InitMoran /\ [][NextMoran]_vars

-----------------------------------------------------------------------------
(* Inputs of calculate_jdi whose top country grows: every frame of up to   *)
(* three countries with up to MaxCount rows each, and a frame of           *)
(* ManyCountries countries with two rows each, whose top share is below    *)
(* the 15% from which the penalty applies. A node moves to the top         *)
(* country from a country that keeps at least one node.                    *)

MaxCount == 4

ManyCountries == 10

\* c[k] rows of country k, for every k
RECURSIVE CountFrame(_)
CountFrame(c) ==
    IF c = <<>> THEN <<>>
    ELSE CountFrame(Front(c)) \o [i \in 1..c[Len(c)] |-> CatRow(Len(c))]

ShareFrames ==
    {CountFrame(c) : c \in (1..MaxCount) \X (1..MaxCount) \X (1..MaxCount)}
        \cup {CatFrame(2, 2, ManyCountries)}

TopCountry(d) == value_counts(Column(d, "country"))[1].key

\* row i is the first row of a country that is not the top country and
\* has two or more rows
Movable(d, i) ==
    LET column == Column(d, "country")
    IN  /\ column[i] # TopCountry(d)
        /\ CountOf(column, column[i]) >= 2
        /\ FirstIndex(column, column[i]) = i

MoveToTop(d, i) == [d EXCEPT ![i] = CatRow(TopCountry(d))]

InitShare ==
    /\ df \in ShareFrames
    /\ threshold_km = DefaultThresholdKm
    /\ ret = [op |-> "none"]
    /\ NoObjects

MoveNode ==
    /\ Idle
    /\ \E i \in 1..Len(df) : Movable(df, i) /\ df' = MoveToTop(df, i)
    /\ UNCHANGED <<threshold_km, ret, objects>>

NextShare == MoveNode \/ CallJdi

SpecShare == InitShare /\ [][NextShare]_vars

-----------------------------------------------------------------------------
(* Inputs of the validation: the rows of calculate_gdi, which may all be   *)
(* dropped by its null-row filter or be none at all, and the coordinates   *)
(* of a NodeLocation at and beyond the ends of their ranges.               *)

Latitudes == {Fin(-91), Fin(-90), Fin(0), Fin(90), Fin(91), NaN, PosInf, NegInf}

Longitudes == {Fin(-181), Fin(-180), Fin(0), Fin(180), Fin(181), NaN, PosInf, NegInf}

CallGdiOnAnyRows ==
    /\ Idle
    /\ ret' = calculate_gdi(df, DefaultWeights)
    /\ UNCHANGED <<df, threshold_km, objects>>

BuildNodeLocation ==
    /\ Idle
    /\ \E lat \in Latitudes, lon \in Longitudes : ret' = NodeLocation(lat, lon)
    /\ UNCHANGED <<df, threshold_km, objects>>

NextValidate == AddGdiRow \/ CallGdiOnAnyRows \/ BuildNodeLocation

SpecValidate == InitGdi /\ [][NextValidate]_vars

-----------------------------------------------------------------------------
(* Inputs of the interpretation of SpatialAnalyzer.morans_i: what          *)
(* esda.Moran reports, I of either sign, zero or nan and p_sim at and      *)
(* around the two significance levels.                                     *)

MoranIs == {Fin(-1500000), Fin(-300000), Fin(-1), Fin(0), Fin(1), Fin(250000), Fin(1800000), NaN}

PSims == {Fin(10), Fin(99), Fin(100), Fin(101), Fin(499), Fin(500), Fin(501), Fin(5000), Fin(10000)}

CallSpatialMoransI ==
    /\ Idle
    /\ Len(df) >= 1
    /\ \E I \in MoranIs, p_sim \in PSims :
         ret' = morans_i([value |-> I, p_value |-> p_sim], threshold_km)
    /\ UNCHANGED <<df, threshold_km, objects>>

NextInterpret == AddRow \/ CallSpatialMoransI

SpecInterpret == Init /\ [][NextInterpret]_vars

-----------------------------------------------------------------------------
(* One SpatialAnalyzer over the caller's GeoDataFrame, frames[1], and any  *)
(* sequence of metric calls on it, at two H3 resolutions.                  *)

Resolutions == {4, DefaultResolution}

MaxAnalyzerRows == 4

InitAnalyzer ==
    /\ df = <<>>
    /\ threshold_km = DefaultThresholdKm
    /\ ret = [op |-> "none"]
    /\ NoObjects

AddAnalyzerRow ==
    /\ Idle
    /\ Len(df) < MaxAnalyzerRows
    /\ \E k \in 1..Len(Positions) :
         /\ df # <<>> => PositionIndex(df[Len(df)]) <= k
         /\ df' = Append(df, PointRow(k))
    /\ UNCHANGED <<threshold_km, ret, objects>>

Constructed == analyzer.constructed

Construct ==
    /\ Idle
    /\ Len(df) >= 1
    /\ LET made == SpatialAnalyzerInit(<<GeoDataFrame(df)>>, 1)
       IN  /\ frames' = made.heap
           /\ analyzer' = made.self
    /\ ret' = [op |-> "__init__"]
    /\ UNCHANGED <<df, threshold_km, output_dirs>>

CallAnalyzerSpatialHhi ==
    /\ Constructed
    /\ \E resolution \in Resolutions :
         LET call == AnalyzerSpatialHhi(frames, analyzer, resolution)
         IN  frames' = call.heap /\ ret' = call.ret
    /\ UNCHANGED <<df, threshold_km, analyzer, output_dirs>>

CallAnalyzerEnl ==
    /\ Constructed
    /\ \E resolution \in Resolutions :
         LET call == AnalyzerEnl(frames, analyzer, resolution)
         IN  frames' = call.heap /\ ret' = call.ret
    /\ UNCHANGED <<df, threshold_km, analyzer, output_dirs>>

CallAnalyzerMoransI ==
    /\ Constructed
    /\ \E moran \in MoranValues :
         LET call == AnalyzerMoransI(frames, analyzer, threshold_km, moran)
         IN  frames' = call.heap /\ ret' = call.ret
    /\ UNCHANGED <<df, threshold_km, analyzer, output_dirs>>

CallAnalyzerAnn ==
    /\ Constructed
    /\ LET call == AnalyzerAnn(frames, analyzer)
       IN  frames' = call.heap /\ ret' = call.ret
    /\ UNCHANGED <<df, threshold_km, analyzer, output_dirs>>

CallComputeAll ==
    /\ Constructed
    /\ \E moran \in MoranValues :
         LET call == compute_all_metrics(frames, analyzer, threshold_km, DefaultResolution, moran)
         IN  frames' = call.heap /\ ret' = call.ret
    /\ UNCHANGED <<df, threshold_km, analyzer, output_dirs>>

NextAnalyzer ==
    \/ AddAnalyzerRow
    \/ Construct
    \/ CallAnalyzerSpatialHhi
    \/ CallAnalyzerEnl
    \/ CallAnalyzerMoransI
    \/ CallAnalyzerAnn
    \/ CallComputeAll

SpecAnalyzer == InitAnalyzer /\ [][NextAnalyzer]_vars

-----------------------------------------------------------------------------
(* Inputs of SpatialAnalyzer.spatial_hhi for its labels: points spread     *)
(* evenly, per_cell to each of m neighbouring cells of resolution 5, up    *)
(* to 10 points in each of 10 cells.                                       *)

MaxCells == 10
MaxPerCell == 10

\* a point in the c-th cell of resolution 5
CellRow(c) == [x |-> CellEdge(DefaultResolution) * (c - 1), y |-> 0, country |-> 1, org |-> 1]

SpreadFrame(m, per_cell) == [i \in 1..(m * per_cell) |-> CellRow(1 + ((i - 1) % m))]

SpreadFrames == {SpreadFrame(m, per_cell) : m \in 1..MaxCells, per_cell \in 1..MaxPerCell}

InitSpread ==
    /\ df \in SpreadFrames
    /\ threshold_km = DefaultThresholdKm
    /\ ret = [op |-> "none"]
    /\ NoObjects

NextSpread == Construct \/ CallAnalyzerSpatialHhi

SpecSpread == InitSpread /\ [][NextSpread]_vars

-----------------------------------------------------------------------------
(* Runs of demo.main: the data file found at the time of a run is one of   *)
(* three data sets, two of them of the same number of nodes, and the       *)
(* parameters are those of the source or differ from them in the threshold *)
(* or in the number of permutations.                                       *)

Datasets ==
    {<<PointRow(1), PointRow(2)>>,
     <<PointRow(1), PointRow(4)>>,
     <<PointRow(1), PointRow(2), PointRow(4)>>}

DefaultParams == [threshold_km |-> DefaultThresholdKm, h3_resolution |-> DefaultResolution, permutations |-> 999]

ParamSets ==
    {DefaultParams,
     [DefaultParams EXCEPT !.threshold_km = 250000],
     [DefaultParams EXCEPT !.permutations = 99]}

\* two of the outcomes of esda.Moran
DemoMorans ==
    {[value |-> Fin(250000), p_value |-> Fin(2500)],
     [value |-> Fin(-300000), p_value |-> Fin(400)]}

InitDemo ==
    /\ df = <<>>
    /\ threshold_km = DefaultThresholdKm
    /\ ret = [op |-> "none"]
    /\ NoObjects

RunMain ==
    \E gdf \in Datasets, params \in ParamSets, moran \in DemoMorans :
        LET run == main(output_dirs, gdf, params, moran)
        IN  /\ df' = gdf
            /\ threshold_km' = params.threshold_km
            /\ output_dirs' = run.dirs
            /\ ret' = run.ret
            /\ UNCHANGED <<frames, analyzer>>

NextDemo == RunMain

SpecDemo == InitDemo /\ [][NextDemo]_vars

-----------------------------------------------------------------------------
(* The three calculate_gdi on the same rows, a country or an org missing   *)
(* in some, under the default weights and under other weights that sum     *)
(* to 1 (in hundredths).                                                   *)

MaxVariantRows == 2

Weights4 == {DefaultWeights, <<25, 25, 25, 25>>, <<0, 100, 0, 0>>}

Weights3 == {<<40, 35, 25>>, <<0, 0, 100>>, <<50, 50, 0>>}

AddVariantRow ==
    /\ Idle
    /\ Len(df) < MaxVariantRows
    /\ \E k \in 1..Len(GdiPositions), c \in Labels, o \in Labels :
         /\ df # <<>> => RowRank(df[Len(df)]) <= RowRank(GdiRow(k, c, o))
         /\ df' = Append(df, GdiRow(k, c, o))
    /\ UNCHANGED <<threshold_km, ret, objects>>

CallStandaloneGdi ==
    /\ Idle
    /\ Len(dropna(df)) >= 1
    /\ \E weights \in Weights4 : ret' = calculate_gdi(df, weights)
    /\ UNCHANGED <<df, threshold_km, objects>>

CallSimpleGdi ==
    /\ Idle
    /\ Len(df) >= 1
    /\ \E weights \in Weights3 : ret' = simple_calculate_gdi(df, weights)
    /\ UNCHANGED <<df, threshold_km, objects>>

CallV0Gdi ==
    /\ Idle
    /\ Len(dropna(df)) >= 1
    /\ \E weights \in Weights3, morans_result \in MoranValues :
         ret' = v0_calculate_gdi(df, weights, morans_result)
    /\ UNCHANGED <<df, threshold_km, objects>>

NextVariants == AddVariantRow \/ CallStandaloneGdi \/ CallSimpleGdi \/ CallV0Gdi

SpecVariants == InitGdi /\ [][NextVariants]_vars

-----------------------------------------------------------------------------
(* Inputs of the three sub-indices together: the category frames, and the  *)
(* point sets of up to MaxPartRows rows over the six positions.            *)

MaxPartRows == 4

PointFrame(ks) == [i \in 1..Len(ks) |-> PointRow(ks[i])]

PointFrames ==
    UNION {{PointFrame(ks) : ks \in {f \in [1..n -> 1..Len(Positions)] :
                                        \A i \in 1..(n - 1) : f[i] <= f[i + 1]}} :
           n \in 1..MaxPartRows}

InitParts ==
    /\ df \in CatFrames \cup PointFrames
    /\ threshold_km \in Thresholds
    /\ ret = [op |-> "none"]
    /\ NoObjects

\* calculate_pdi on the frames of at most MaxRows rows
CallPdiOfPart ==
    /\ Len(df) <= MaxRows
    /\ CallPdi

NextParts == CallJdi \/ CallIhi \/ CallPdiOfPart

SpecParts == InitParts /\ [][NextParts]_vars

-----------------------------------------------------------------------------
(* Properties                                                              *)

\* a score in tenths of a point lies within [0, 100]
InScoreRange(score) == IsFin(score) /\ score.v >= 0 /\ score.v <= 1000

\* a score reported in tenths of a point, in 1/10000 points
Reported(score) == IF IsFin(score) THEN Fin(score.v * 1000) ELSE score

\* no pair of points of df lies within threshold_km
NoNeighborPair == query_pairs(Coords(df), threshold_km) = {}

\* every point of df has the same local density
ConstantDensity ==
    \A i \in 1..Len(df) : KthDistance(Coords(df), i, 6) = KthDistance(Coords(df), 1, 6)

\* C1: for every non-empty set of rows, calculate_jdi and calculate_ihi
\* return a score within [0, 100], whatever the number of categories and
\* the share of the top category.
C1_JdiIhiWithinRange ==
    /\ ret.op = "calculate_jdi" => InScoreRange(ret.jdi)
    /\ ret.op = "calculate_ihi" => InScoreRange(ret.ihi)

\* C2: when no pair of points lies within the distance threshold (S0 = 0),
\* calculate_pdi fails with an error and returns no score.
C2_PdiFailsWithoutNeighbors ==
    (ret.op = "calculate_pdi" /\ NoNeighborPair) => ret.status # "ok"

\* C3: the top-share concentration penalty of calculate_jdi and
\* calculate_ihi lies within [0, 0.35] for every top share.
C3_PenaltyClipped ==
    /\ ret.op = "calculate_jdi" =>
         JdiPenalty(TopShare(value_counts(Column(df, "country")), Len(df))) \in 0..350000
    /\ ret.op = "calculate_ihi" =>
         IhiPenalty(TopShare(value_counts(Column(df, "org")), Len(df))) \in 0..350000

\* C4: calculate_gdi with its default weights returns a gdi within [0, 100]
\* for every input with at least one row left after the null-row filter.
C4_GdiWithinRange ==
    (ret.op = "calculate_gdi" /\ ret.status = "ok") => InScoreRange(ret.gdi)

C6_MoranInsufficientData ==
    (ret.op = "_calculate_morans_i" /\ (Len(df) < 2 \/ NoNeighborPair)) =>
        ret.status = "InsufficientDataError"

\* C7: average_nearest_neighbor fails with DegenerateGeometryError when the
\* bounding box of two or more points has zero area.
C7_AnnDegenerateGeometry ==
    (ret.op = "average_nearest_neighbor" /\ Len(df) >= 2 /\ BoundsArea(Coords(df)) = 0) =>
        ret.status = "DegenerateGeometryError"

\* C8: average_nearest_neighbor rejects a point set of exactly one point
\* with InsufficientDataError.
C8_AnnRejectsSingleton ==
    (ret.op = "average_nearest_neighbor" /\ Len(df) = 1) =>
        ret.status = "InsufficientDataError"

\* C9: for every point set of two or more points whose attribute values
\* are all equal, _calculate_morans_i returns I = 0 and raises no error.
C9_ConstantAttributeGivesZero ==
    (ret.op = "_calculate_morans_i" /\ Len(df) >= 2 /\ ConstantDensity) =>
        (ret.status = "ok" /\ ret.I = Fin(0))

\* C10: the interpretation label of a calculate_jdi or calculate_ihi result
\* is the score band that contains the score reported in the same result.
C10_LabelMatchesReportedScore ==
    /\ ret.op = "calculate_jdi" =>
         ret.interpretation = _interpret_hhi_based(Reported(ret.jdi))
    /\ ret.op = "calculate_ihi" =>
         ret.interpretation = _interpret_hhi_based(Reported(ret.ihi))

\* the weights matrix of the last call, before and after row-standardization
BinaryW == BinaryWeights(Coords(df), (threshold_km * 1000) \div 1000)

StandardW == StandardizedWeights(Coords(df), threshold_km)

\* two weights num / den are the same number
SameWeight(a, b) == a.num * b.den = b.num * a.den

\* the number of neighbours of point i within the band
Degree(W, i) == SumSeq(W[i])

NoSelfLoops(W, S) == \A i \in 1..Len(W) : W[i][i] = 0 /\ S[i][i].num = 0

Symmetric(W) == \A i, j \in 1..Len(W) : W[i][j] = W[j][i]

SymmetricStandardized(S) == \A i, j \in 1..Len(S) : SameWeight(S[i][j], S[j][i])

\* weight(i, j) is positive exactly when weight(j, i) is, and the two are
\* the same number exactly when they are 0 or the rows have equally many
\* neighbours
SymmetricSupport(W, S) ==
    \A i, j \in 1..Len(W) :
        /\ (S[i][j].num > 0) = (S[j][i].num > 0)
        /\ SameWeight(S[i][j], S[j][i]) = (W[i][j] = 0 \/ Degree(W, i) = Degree(W, j))

UnequalNeighbours(W) ==
    \E i, j \in 1..Len(W) : W[i][j] = 1 /\ Degree(W, i) # Degree(W, j)

\* C11 as stated: the weights of Moran's I, also after row-standardization,
\* have no self-loops and weight(i, j) = weight(j, i) for every pair.
C11_WeightsSymmetricNoSelfLoops ==
    ret.op = "_calculate_morans_i" =>
        LET W == BinaryW
            S == StandardW
        IN  NoSelfLoops(W, S) /\ Symmetric(W) /\ SymmetricStandardized(S)

\* C11: the weights have no self-loops before and after
\* row-standardization; before it weight(i, j) = weight(j, i) for every
\* pair; after it weight(i, j) is positive exactly when weight(j, i) is,
\* and the two are equal exactly when they are 0 or i and j have the same
\* number of neighbours.
C11_BinaryWeightsSymmetric ==
    ret.op = "_calculate_morans_i" =>
        LET W == BinaryW
            S == StandardW
        IN  NoSelfLoops(W, S) /\ Symmetric(W) /\ SymmetricSupport(W, S)

\* Moran's I was computed over two neighbours with different numbers of
\* neighbours
C11_NeighboursOfUnequalDegree ==
    /\ ret.op = "_calculate_morans_i" /\ ret.status = "ok"
    /\ LET W == BinaryW IN UnequalNeighbours(W)

\* the sum of row i of S is exactly 1: the weights of a row share one divisor
RowSumsToOne(S, i) == SumSeq([j \in 1..Len(S) |-> S[i][j].num]) = S[i][i].den

RowIsZero(S, i) == \A j \in 1..Len(S) : S[i][j].num = 0

RowsSumToOneOrZero(W, S) ==
    \A i \in 1..Len(W) :
        /\ \A j \in 1..Len(W) : S[i][j].den # 0
        /\ Degree(W, i) >= 1 => RowSumsToOne(S, i)
        /\ Degree(W, i) = 0 => RowIsZero(S, i)

\* C12: after row-standardization every row of a point with at least one
\* neighbour within the threshold sums to exactly 1 (the weights taken as
\* the quotients 1 / row_sum), every row of an isolated point is all-zero,
\* and no weight is a division by zero.
C12_RowsSumToOneOrZero ==
    ret.op = "_calculate_morans_i" =>
        LET W == BinaryW
            S == StandardW
        IN  RowsSumToOneOrZero(W, S)

IsolatedAndConnected(W) ==
    /\ \E i \in 1..Len(W) : Degree(W, i) = 0
    /\ \E i \in 1..Len(W) : Degree(W, i) >= 2

\* Moran's I was computed over an isolated point and a point with two or
\* more neighbours
C12_IsolatedAndConnectedRows ==
    /\ ret.op = "_calculate_morans_i" /\ ret.status = "ok"
    /\ LET W == BinaryW IN IsolatedAndConnected(W)

\* the jdi calculate_jdi returns once row i has moved to the top country
JdiAfterMove(d, i) == calculate_jdi(MoveToTop(d, i)).jdi.v

\* C13: moving a node from another country to the top country, the number
\* of countries and of nodes staying the same, never increases the jdi
\* calculate_jdi returns.
C13_JdiFallsWithTopShare ==
    ret.op = "calculate_jdi" =>
        \A i \in 1..Len(df) : Movable(df, i) => JdiAfterMove(df, i) <= ret.jdi.v

\* calculate_jdi returned a jdi that a move to the top country lowers, the
\* top country holding less than 15% of the nodes
C13_MoveLowersJdi ==
    /\ ret.op = "calculate_jdi"
    /\ TopShare(value_counts(Column(df, "country")), Len(df)) < 150000
    /\ \E i \in 1..Len(df) : Movable(df, i) /\ JdiAfterMove(df, i) < ret.jdi.v

\* ENL values to compare, as whole numbers of locations: below, at and
\* above the cap of 2000 of calculate_pdi, and for gdi_v0_final
EnlValues == {1, 2, 3, 60, 1999, 2000, 2100}

EnlValuesV0 == {1, 2, 3, 6, 60}

\* whole locations in the unit of enl, 1/10000
Locations(e) == e * 10000

\* the pdi of calculate_pdi for every enl of enls, the other components
\* being those of moran and sh
PdiByEnl(moran, sh, enls) == {<<enl, PdiOf(moran, sh, enl).pdi.v>> : enl \in enls}

\* the pdi of gdi_v0_final.calculate_pdi for every enl of enls
PdiV0ByEnl(morans_result, hhi_result, enl_result, enls) ==
    {<<enl, PdiV0Of(morans_result, hhi_result,
                    [enl_result EXCEPT !.value = enl]).pdi.v>> : enl \in enls}

NeverDecreases(pdis) == \A a, b \in pdis : a[1] <= b[1] => a[2] <= b[2]

PdiRisesWithEnl(moran, sh, enl, enls) ==
    LET pdis == PdiByEnl(moran, sh, enls \cup {enl})
    IN  NeverDecreases(pdis) /\ <<enl, ret.pdi.v>> \in pdis

PdiV0RisesWithEnl(hhi_result, enl_result, enls) ==
    \A morans_result \in MoranValues :
        LET pdis == PdiV0ByEnl(morans_result, hhi_result, enl_result,
                               enls \cup {enl_result.value})
        IN  NeverDecreases(pdis)

\* C14: a greater ENL, with Moran's I, the spatial HHI and the number of
\* occupied cells the same, never gives a smaller pdi, in calculate_pdi of
\* gdi_standalone and of gdi_v0_final.
C14_PdiRisesWithEnl ==
    /\ (ret.op = "calculate_pdi" /\ ret.status = "ok") =>
         LET moran == _calculate_morans_i(Coords(df), threshold_km)
             sh == _calculate_spatial_hhi(df, DefaultResolution)
             enl == _calculate_enl(df, DefaultResolution)
         IN  PdiRisesWithEnl(moran, sh, enl, {Locations(e) : e \in EnlValues})
    /\ ret.op = "calculate_pdi_v0" =>
         LET hhi_result == spatial_hhi(df, DefaultResolution)
             enl_result == effective_num_locations(df, DefaultResolution)
         IN  PdiV0RisesWithEnl(hhi_result, enl_result, {Locations(e) : e \in EnlValuesV0})

\* calculate_pdi returned a pdi that a greater ENL raises, and that an ENL
\* beyond the cap does not raise further
C14_GreaterEnlRaisesPdi ==
    /\ ret.op = "calculate_pdi" /\ ret.status = "ok"
    /\ LET moran == _calculate_morans_i(Coords(df), threshold_km)
           sh == _calculate_spatial_hhi(df, DefaultResolution)
       IN  /\ PdiOf(moran, sh, Locations(60)).pdi.v > ret.pdi.v
           /\ PdiOf(moran, sh, Locations(2100)).pdi = PdiOf(moran, sh, Locations(2000)).pdi

\* hhi, in millionths rounded down, lies within [1 / num_cells, 1] and is 1
\* exactly when one cell is occupied
HhiWithinBounds(hhi, num_cells) ==
    /\ hhi >= DivMicro(1, num_cells)
    /\ hhi <= Micro
    /\ (hhi = Micro) = (num_cells = 1)

\* calculate_pdi of either module has computed its components from df
PdiComputed == ret.op \in {"calculate_pdi", "calculate_pdi_v0"} /\ ret.status = "ok"

\* C15: for every non-empty assignment of points to cells the spatial HHI,
\* of _calculate_spatial_hhi and of SpatialAnalyzer.spatial_hhi, satisfies
\* 1 / num_cells <= HHI <= 1, and HHI = 1 exactly when one cell is occupied.
C15_HhiWithinBounds ==
    PdiComputed =>
        LET sh == _calculate_spatial_hhi(df, DefaultResolution)
            hhi_result == spatial_hhi(df, DefaultResolution)
        IN  /\ HhiWithinBounds(sh.hhi, sh.num_cells)
            /\ HhiWithinBounds(hhi_result.value, hhi_result.num_cells_occupied)
            /\ ret.total_cells = sh.num_cells
            /\ ret.spatial_hhi = Round3(sh.hhi)

\* an HHI strictly between the bounds was computed over three or more cells
C15_UnevenOverThreeCells ==
    /\ PdiComputed
    /\ LET sh == _calculate_spatial_hhi(df, DefaultResolution)
       IN  sh.num_cells >= 3 /\ sh.hhi > DivMicro(1, sh.num_cells) + 1 /\ sh.hhi < Micro

\* a <= b for two ENLs in 1/10000, up to the rounding of the model's
\* logarithm and exponential
EnlAtMost(a, b) == a <= b + 5

\* 1 <= ENL <= num_cells, and so does the ENL rounded to one decimal
EnlWithinBounds(enl, num_cells) ==
    /\ EnlAtMost(Locations(1), enl)
    /\ EnlAtMost(enl, Locations(num_cells))
    /\ RoundHalfEven(enl, 1000) \in 10..(10 * num_cells)

\* 0 < ENL / num_cells <= 1
EvennessWithinBounds(enl, num_cells) ==
    /\ Evenness(enl, num_cells) > 0
    /\ EnlAtMost(Evenness(enl, num_cells) \div 100, Locations(1))

\* C16: for every non-empty assignment of points to cells the effective
\* number of locations, of _calculate_enl and of
\* SpatialAnalyzer.effective_num_locations, satisfies
\* 1 <= ENL <= num_cells, so the evenness ENL / num_cells is in (0, 1].
C16_EnlWithinBounds ==
    PdiComputed =>
        LET enl == _calculate_enl(df, DefaultResolution)
            enl_result == effective_num_locations(df, DefaultResolution)
        IN  /\ EnlWithinBounds(enl, ret.total_cells)
            /\ EnlWithinBounds(enl_result.value, enl_result.total_locations)
            /\ EvennessWithinBounds(enl_result.value, enl_result.total_locations)
            /\ ret.enl = RoundHalfEven(enl, 1000)

\* an ENL strictly between 1 and the number of cells was computed over
\* three or more cells
C16_UnevenEnl ==
    /\ PdiComputed
    /\ ret.total_cells >= 3
    /\ LET enl == _calculate_enl(df, DefaultResolution)
       IN  ~EnlAtMost(enl, Locations(1)) /\ ~EnlAtMost(Locations(ret.total_cells), enl)

\* every occupied cell holds the same number of points
EvenlySpread(cell_counts) ==
    \A i \in 1..Len(cell_counts) : cell_counts[i].count = cell_counts[1].count

\* hhi = 1 / m in millionths, and ENL = m up to the rounding of the model's
\* logarithm and exponential and exactly once rounded to one decimal
UniformValues(hhi, enl, m) ==
    /\ hhi = DivMicro(1, m)
    /\ EnlAtMost(enl, Locations(m)) /\ EnlAtMost(Locations(m), enl)
    /\ RoundHalfEven(enl, 1000) = 10 * m

\* C17: points spread evenly over m occupied cells, the same count in each,
\* give spatial HHI = 1 / m and ENL = m: one point per cell over N cells
\* gives 1 / N and N, all points in one cell give 1 and 1.
C17_UniformHhiAndEnl ==
    (PdiComputed /\ EvenlySpread(CellCounts(df, DefaultResolution))) =>
        LET sh == _calculate_spatial_hhi(df, DefaultResolution)
            enl == _calculate_enl(df, DefaultResolution)
            hhi_result == spatial_hhi(df, DefaultResolution)
            enl_result == effective_num_locations(df, DefaultResolution)
        IN  /\ UniformValues(sh.hhi, enl, sh.num_cells)
            /\ UniformValues(hhi_result.value, enl_result.value, enl_result.total_locations)
            /\ ret.spatial_hhi = Round3(DivMicro(1, sh.num_cells))
            /\ ret.enl = 10 * sh.num_cells

\* the components were computed for two points in each of three cells
C17_TwoPointsInEachOfThreeCells ==
    /\ PdiComputed
    /\ EvenlySpread(CellCounts(df, DefaultResolution))
    /\ Len(df) = 6 /\ ret.total_cells = 3
    /\ ret.enl = 30

\* a coordinate pair within [-90, 90] x [-180, 180], neither nan nor infinite
WellFormed(lat, lon) ==
    /\ IsFin(lat) /\ lat.v >= -90 /\ lat.v <= 90
    /\ IsFin(lon) /\ lon.v >= -180 /\ lon.v <= 180

\* C18: malformed input fails with a validation error before anything is
\* computed: a NodeLocation with a latitude outside [-90, 90], a longitude
\* outside [-180, 180] or a nan or infinite coordinate is rejected, and so
\* is a point set that is empty, also when the null-row filter of
\* calculate_gdi has emptied it.
C18_MalformedInputRejected ==
    /\ ret.op = "NodeLocation" =>
         (ret.status = "ValidationError") = ~WellFormed(ret.latitude, ret.longitude)
    /\ (ret.op = "calculate_gdi" /\ dropna(df) = <<>>) => ret.status = "ValidationError"

Significant(label) == label \in {"Significant clustering", "Significant dispersion"}

Moderate(label) == label \in {"Moderate clustering", "Moderate dispersion"}

Clustering(label) == label \in {"Significant clustering", "Moderate clustering"}

Dispersion(label) == label \in {"Significant dispersion", "Moderate dispersion"}

\* C19: the interpretation of Moran's I is 'Significant' exactly when
\* p < 0.01, 'Moderate' exactly when 0.01 <= p < 0.05 and 'Random'
\* otherwise; a significant or moderate result is labelled clustering when
\* I is positive and dispersion when I is negative.
C19_MoranInterpretation ==
    ret.op = "morans_i" =>
      LET p == ret.p_value.v
          I == ret.value
          label == ret.interpretation
      IN  /\ Significant(label) = (p < 100)
          /\ Moderate(label) = (100 <= p /\ p < 500)
          /\ (label = "Random distribution") = (p >= 500)
          /\ (p < 500 /\ IsFin(I) /\ I.v > 0) => Clustering(label)
          /\ (p < 500 /\ IsFin(I) /\ I.v < 0) => Dispersion(label)

\* a negative I just below the 0.01 level was interpreted
C19_SignificantDispersion ==
    /\ ret.op = "morans_i"
    /\ ret.p_value = Fin(99) /\ ret.value = Fin(-1)
    /\ ret.interpretation = "Significant dispersion"

\* the rows of d with those at i and i + 1 exchanged, attributes included
SwapRows(d, i) == [d EXCEPT ![i] = d[i + 1], ![i + 1] = d[i]]

UnchangedBySwaps(d, thr_km, I, p_value) ==
    \A i \in 1..(Len(d) - 1) :
        LET moran == _calculate_morans_i(Coords(SwapRows(d, i)), thr_km)
        IN  moran.status = "ok" /\ moran.I = I /\ moran.p_value = p_value

\* C20: permuting the order of the points, their attributes with them,
\* leaves the Moran's I and the p-value that _calculate_morans_i returns
\* unchanged: exchanging any two neighbouring rows of the frame changes
\* neither, and the frames of the specification come in every order.
C20_MoranUnchangedByOrder ==
    (ret.op = "_calculate_morans_i" /\ ret.status = "ok") =>
        UnchangedBySwaps(df, threshold_km, ret.I, ret.p_value)

\* six points at three places, the first two rows apart, with I not zero
C20_OrderedPointsWithAutocorrelation ==
    /\ ret.op = "_calculate_morans_i" /\ ret.status = "ok"
    /\ Len(df) = 6 /\ df[1] # df[2] /\ df[2] # df[3]
    /\ IsFin(ret.I) /\ ret.I.v # 0

\* C21: on one SpatialAnalyzer, spatial_hhi(r) and
\* effective_num_locations(r) return for a resolution r what they return
\* on a fresh frame of the same points, whatever metric calls (morans_i,
\* average_nearest_neighbor, either of the two at another resolution)
\* were made on the analyzer before.
C21_SameValueAfterAnyCalls ==
    /\ ret.op = "spatial_hhi" =>
         ret = [op |-> "spatial_hhi"] @@ spatial_hhi(df, ret.grid_resolution)
    /\ ret.op = "effective_num_locations" =>
         ret = [op |-> "effective_num_locations", resolution |-> ret.resolution]
               @@ effective_num_locations(df, ret.resolution)

\* spatial_hhi(5) has returned after morans_i was called, on points whose
\* cells at resolution 4 give another result
C21_HhiAfterMoranOnResolutionSensitivePoints ==
    /\ ret.op = "spatial_hhi" /\ ret.grid_resolution = DefaultResolution
    /\ frames[analyzer.gdf_projected].density.present
    /\ spatial_hhi(df, 4).value # ret.value

\* C30: no sequence of SpatialAnalyzer metric calls changes the
\* GeoDataFrame the caller passed to the constructor: it keeps its rows
\* and gains neither an 'h3_cell' nor a 'density' column, which are written
\* to the analyzer's own copies only.
C30_CallerFrameUnchanged ==
    Constructed =>
        /\ frames[1] = GeoDataFrame(df)
        /\ analyzer.gdf # 1 /\ analyzer.gdf_projected # 1

\* compute_all_metrics has run and both of the analyzer's frames carry the
\* column that the methods add
C30_ColumnsAddedToCopies ==
    /\ Constructed
    /\ ret.op = "compute_all_metrics"
    /\ frames[analyzer.gdf].h3_cell.present
    /\ frames[analyzer.gdf_projected].density.present

\* 100 * [0.7 * (1 - Country_HHI) + 0.3 * min(1, log10(num_countries) / 2)],
\* rounded to one decimal as calculate_jdi rounds its score
DocstringJdi(country_hhi, num_countries) ==
    LET lg == Log10(num_countries)
    IN  IF IsFin(lg)
        THEN Round1(Fin((7 * (Micro - country_hhi)) \div 10
                        + (30 * Min(Micro, (lg.v * 10) \div 20)) \div 100))
        ELSE lg

\* C22: calculate_jdi returns the JDI of its docstring,
\* 100 x [0.7 x (1 - Country_HHI) + 0.3 x min(1, log10(num_countries) / 2)],
\* for every country distribution.
C22_JdiAsDocstring ==
    ret.op = "calculate_jdi" =>
        LET country_counts == value_counts(Column(df, "country"))
        IN  ret.jdi = DocstringJdi(HhiMicro(country_counts, Len(df)), Len(country_counts))

C24_SkipsOnlyTheSameAnalysis ==
    (ret.op = "main" /\ ret.status = "skipped") =>
        \E d \in output_dirs :
            /\ d.run_name = ret.run_name
            /\ d.input = df
            /\ d.parameters = ret.parameters

\* a result of calculate_jdi or calculate_ihi whose score (tenths) is at
\* most 65 and is made of an HHI term of at most 30 and a diversity bonus
\* of at most 35, and whose label is not 'Low concentration'
AtMostSixtyFive(score, result) ==
    /\ FloatLe(score, 650)
    /\ FloatLe(result.hhi_contribution, 300)
    /\ FloatLe(result.diversity_contribution, 350)
    /\ result.interpretation # "Low concentration"

SharesSumToOne(d, column, total_nodes) ==
    SumCounts(value_counts(column)) = Len(d) /\ total_nodes = Len(d)

\* C26: in every calculate_gdi (simple_metrics, gdi_v0_final,
\* gdi_standalone) the country shares and the org or provider shares that
\* enter the HHI or the entropy each sum to 1, and total_nodes is the
\* number of rows that contribute to every sub-index, also when rows have
\* a null country or org.
C26_SharesSumToOne ==
    /\ ret.op \in {"calculate_gdi", "gdi_v0_final.calculate_gdi"} /\ ret.status = "ok" =>
         LET d == dropna(df)
         IN  /\ SharesSumToOne(d, Column(d, "country"), ret.total_nodes)
             /\ SharesSumToOne(d, Column(d, "org"), ret.total_nodes)
    /\ ret.op = "simple_metrics.calculate_gdi" =>
         /\ SharesSumToOne(df, Column(df, "country"), ret.total_nodes)
         /\ SharesSumToOne(df, [i \in 1..Len(df) |-> _categorize_provider(df[i])],
                           ret.total_nodes)

\* a <= b for two floats; every comparison with nan is False
FloatLeq(a, b) ==
    CASE a.t = "nan" \/ b.t = "nan" -> FALSE
      [] a.t = "ninf" \/ b.t = "inf" -> TRUE
      [] a.t = "inf" \/ b.t = "ninf" -> FALSE
      [] OTHER -> a.v <= b.v

\* g lies between the least and the greatest of the scores
Between(g, scores) ==
    /\ \E lo \in scores : FloatLeq(lo, g)
    /\ \E hi \in scores : FloatLeq(g, hi)

NodeCounts == {1, 2, 3, 100, 101, 49999, 50000, 50001, 100000}

\* the network-size score is in (0, 100], does not decrease with the node
\* count and is 100 from 50000 nodes on
SizeScoreMonotone ==
    \A n \in NodeCounts :
        /\ NetworkSizeScore(n) > 0 /\ NetworkSizeScore(n) <= Points(100)
        /\ n >= 50000 => NetworkSizeScore(n) = Points(100)
        /\ \A m \in NodeCounts : m <= n => NetworkSizeScore(m) <= NetworkSizeScore(n)

\* C29: for weights that are not negative and sum to 1, the gdi of every
\* calculate_gdi lies between the least and the greatest of the scores it
\* blends: pdi, jdi, ihi and, in gdi_standalone, the network-size score,
\* which is in (0, 100], non-decreasing in the node count and 100 from
\* 50000 nodes on.
C29_GdiBetweenBlendedScores ==
    /\ SizeScoreMonotone
    /\ (ret.op = "calculate_gdi" /\ ret.status = "ok") =>
         Between(ret.gdi, {ret.pdi.pdi, ret.jdi.jdi, ret.ihi.ihi, Fin(ret.network_size_score)})
    /\ ret.op \in {"simple_metrics.calculate_gdi", "gdi_v0_final.calculate_gdi"} =>
         Between(ret.gdi, {ret.pdi.pdi, ret.jdi.jdi, ret.ihi.ihi})

-----------------------------------------------------------------------------
(* C27: in the results of calculate_jdi and calculate_ihi the score is     *)
(* hhi_contribution + diversity_contribution - 100 x penalty within the    *)
(* rounding to one decimal; the penalty is zero exactly when the top share *)
(* is at or below the floor (15% for countries, 3% for orgs), so the       *)
(* listed contributions sum to the score then and exceed it otherwise; in  *)
(* the result of calculate_pdi the three listed contributions sum to the   *)
(* pdi within rounding.                                                    *)

\* score and contributions in tenths of a point, penalty in 1/10000 point:
\* three roundings of at most 0.05 each, four in calculate_pdi
PartsOfScore(score, result, penalty, at_floor) ==
    LET listed == result.hhi_contribution.v + result.diversity_contribution.v
    IN  /\ IsFin(score)
        /\ Abs(1000 * score.v - (1000 * listed - penalty)) <= 1500
        /\ at_floor => penalty = 0 /\ Abs(score.v - listed) <= 1
        /\ ~at_floor => /\ penalty > 0
                        /\ listed >= score.v - 1
                        /\ penalty >= 1500 => listed > score.v

TopCountryShare == TopShare(value_counts(Column(df, "country")), Len(df))

TopOrgShare == TopShare(value_counts(Column(df, "org")), Len(df))

-----------------------------------------------------------------------------
(* C28: for a point set of 2 to 5 points no point has a 5th nearest        *)
(* neighbour, _get_local_density is zero for every point, and              *)
(* _calculate_morans_i returns I = 0 whatever the coordinates and the      *)
(* threshold.                                                              *)

FewPoints == Len(df) >= 2 /\ Len(df) <= 5

C28_FewPointsGiveZeroMoran ==
    (ret.op = "_calculate_morans_i" /\ FewPoints) =>
        /\ \A i \in 1..Len(df) :
              /\ KDistances(Coords(df))[i] = PosInf
              /\ _get_local_density(Coords(df))[i] = 0
        /\ ret.status = "ok"
        /\ ret.I = Fin(0)

\* five points at five places, some of them neighbours under the threshold
C28_FiveNeighbouringPoints ==
    /\ ret.op = "_calculate_morans_i"
    /\ Len(df) = 5
    /\ Cardinality({<<df[i].x, df[i].y>> : i \in 1..5}) = 5
    /\ query_pairs(Coords(df), threshold_km) # {}
    /\ query_pairs(Coords(df), threshold_km) # {pr \in (1..5) \X (1..5) : pr[1] < pr[2]}
    /\ ret.I = Fin(0)

=============================================================================
